---------------------------- MODULE Spec2Model ----------------------------
(***************************************************************************)
(* Match state machine, crafting / placement protocol and craft cache of   *)
(* the game server (src/game/src: game_state.rs, game_api.rs,              *)
(* card_cache.rs).                                                         *)
(*                                                                         *)
(* Every request handler is split at the points where it awaits a lock or  *)
(* an external (Oracle / Renderer) call, so that concurrent requests on    *)
(* one match interleave exactly where the code lets them.  The match-store *)
(* lock is never held across an await, hence every critical section on     *)
(* `games` is one atomic step.  The cache-hit path of combine keeps the    *)
(* cache write lock while it waits for the match-store write lock; no      *)
(* other request can touch the cache in between and the check itself does  *)
(* not read the match, so the check and the commit are one step taken at   *)
(* the moment of the commit.                                               *)
(***************************************************************************)
EXTENDS Integers, Sequences, FiniteSets, TLC

(***************************************************************************)
(* Program constants.                                                      *)
(***************************************************************************)
HAND_SIZE == 7
WIN_SCORE == 5
BoardDim == 3

(***************************************************************************)
(* Bounds of the model.                                                    *)
(***************************************************************************)
\* number of values of the truncated digest (the code keeps 12 hex digits)
HashSpace == 61
\* requests that may be in flight at the same time on the match
MaxInFlight == 2
\* requests a run of the model sends
MaxRequests == 3

(***************************************************************************)
(* Strings.  A string is known to the state as a TLA+ string; Text gives   *)
(* its characters, on which to_lowercase, contains and the file-name       *)
(* sanitiser work.                                                         *)
(***************************************************************************)
Upper == <<"A","B","C","D","E","F","G","H","I","J","K","L","M",
           "N","O","P","Q","R","S","T","U","V","W","X","Y","Z">>
Lower == <<"a","b","c","d","e","f","g","h","i","j","k","l","m",
           "n","o","p","q","r","s","t","u","v","w","x","y","z">>
Punct == <<" ", "-", "!", ".">>
Alphabet == Upper \o Lower \o Punct

Text(s) ==
    CASE s = "Water"          -> <<"W","a","t","e","r">>
      [] s = "Sharp"          -> <<"S","h","a","r","p">>
      [] s = "Steam"          -> <<"S","t","e","a","m">>
      [] s = "Hot Mud!"       -> <<"H","o","t"," ","M","u","d","!">>
      [] s = "Not possible"   -> <<"N","o","t"," ","p","o","s","s","i","b","l","e">>
      [] s = "NOT POSSIBLE."  -> <<"N","O","T"," ","P","O","S","S","I","B","L","E",".">>
      [] s = "not-possible"   -> <<"n","o","t","-","p","o","s","s","i","b","l","e">>
      [] s = "Unknown"        -> <<"U","n","k","n","o","w","n">>
      [] OTHER                -> << >>

IndexIn(seq, c) == CHOOSE i \in 1..Len(seq) : seq[i] = c
Occurs(seq, c) == \E i \in 1..Len(seq) : seq[i] = c

\* str::to_lowercase, character by character
LowerChar(c) == IF Occurs(Upper, c) THEN Lower[IndexIn(Upper, c)] ELSE c
ToLowercase(t) == [i \in 1..Len(t) |-> LowerChar(t[i])]

\* str::contains
Contains(t, pat) ==
    \E i \in 0..(Len(t) - Len(pat)) : SubSeq(t, i + 1, i + Len(pat)) = pat

NotPossibleText == <<"n","o","t"," ","p","o","s","s","i","b","l","e">>

\* card_name.to_lowercase().contains("not possible")
IsNotPossible(name) == Contains(ToLowercase(Text(name)), NotPossibleText)

\* c.is_alphanumeric() || c == ' ' || c == '-'  kept, anything else '_',
\* then ' ' replaced by '-'
SafeChar(c) ==
    IF Occurs(Upper, c) \/ Occurs(Lower, c) \/ c = "-" THEN c
    ELSE IF c = " " THEN "-" ELSE "_"
SafeName(name) == [i \in 1..Len(Text(name)) |-> SafeChar(Text(name)[i])]

(***************************************************************************)
(* Content addresses.  Sha256Hex12 stands for "SHA-256, first 12 hex       *)
(* digits": a fixed digest of the byte string with HashSpace values.  An   *)
(* id is the number its hex digits denote (12 lower-case hex digits sort   *)
(* as strings exactly as they sort as numbers).  In a key string an id is  *)
(* one token; '+', '[' and ']' are tokens of their own.                    *)
(***************************************************************************)
RECURSIVE DigestFrom(_, _)
DigestFrom(h, bytes) ==
    IF bytes = << >> THEN h
    ELSE DigestFrom((h * 31 + Head(bytes) + 1) % HashSpace, Tail(bytes))
Sha256Hex12(bytes) == DigestFrom(7, bytes)

CharCode(c) == IndexIn(Alphabet, c)
Bytes(t) == [i \in 1..Len(t) |-> CharCode(t[i])]
PlusTok == 0
LBrTok == 1
RBrTok == 2
IdTok(id) == id + 3

\* compute_base_card_id
compute_base_card_id(name) == Sha256Hex12(Bytes(ToLowercase(Text(name))))

\* Vec<String>::sort : insertion into an ascending sequence
RECURSIVE Insert(_, _)
Insert(x, sorted) ==
    IF sorted = << >> THEN <<x>>
    ELSE IF x <= Head(sorted) THEN <<x>> \o sorted
    ELSE <<Head(sorted)>> \o Insert(x, Tail(sorted))
RECURSIVE Sort(_)
Sort(ids) == IF ids = << >> THEN << >> ELSE Insert(Head(ids), Sort(Tail(ids)))

\* variant: the ids are joined in the order given
SortNone(ids) == ids

\* ids.sort() of compute_crafted_card_id
SortIds(ids) == Sort(ids)

\* ids.join("+")
RECURSIVE Join(_)
Join(ids) ==
    IF ids = << >> THEN << >>
    ELSE IF Len(ids) = 1 THEN <<IdTok(ids[1])>>
    ELSE <<IdTok(Head(ids)), PlusTok>> \o Join(Tail(ids))

NoIntent == -1

\* compute_crafted_card_id(material_ids, intent_id)
compute_crafted_card_id(material_ids, intent_id) ==
    LET ids == SortIds(material_ids)
        key == Join(ids) \o
               (IF intent_id # NoIntent
                THEN <<PlusTok, LBrTok, IdTok(intent_id), RBrTok>> ELSE << >>)
    IN  Sha256Hex12(key)


(***************************************************************************)
(* Option<T>: None is the empty sequence, Some(x) a sequence of one.       *)
(***************************************************************************)
None == << >>
Some(x) == <<x>>

(***************************************************************************)
(* Configuration loaded at start-up: the base cards and the categories.    *)
(***************************************************************************)
\* build_base_cards on cards.json = {materials: [Water], intents: [Sharp]}
BaseCard(name, kind, dir) ==
    [name |-> name, description |-> "base", kind |-> kind,
     image_path |-> <<dir>> \o Text(name),
     id |-> compute_base_card_id(name)]
base_cards == << BaseCard("Water", "material", "materials"),
                 BaseCard("Sharp", "intent", "intents") >>

\* categories.json
categories == <<"c1", "c2", "c3", "c4", "c5", "c6", "c7", "c8", "c9">>

\* HandCard::from_base.  nft_mint: None is an absent field, as serialised
\* (skip_serializing_if); Some(mint) is the field nft_mint.
from_base(base) == base

Range(seq) == {seq[i] : i \in 1..Len(seq)}
Materials == {c \in Range(base_cards) : c.kind = "material"}
Intents == {c \in Range(base_cards) : c.kind = "intent"}

\* draw_random_card: every card the random draw can return
draw_random_card ==
    IF Intents # {} /\ Materials # {} THEN Intents \cup Materials ELSE Materials

\* Outcomes of n consecutive draws.  The model enumerates the runs in which
\* an intent comes up, if at all, among the first IntentRun draws.
IntentRun == 1
RngRuns(n) ==
    {run \in [1..n -> draw_random_card] :
        \A i \in 1..n : run[i].kind = "intent" => i <= IntentRun}

\* the shuffles of the categories the model enumerates
Shuffles == {categories}

Cells == (0..(BoardDim - 1)) \X (0..(BoardDim - 1))
Players == {0, 1}
Other(p) == 1 - p

(***************************************************************************)
(* GameState                                                               *)
(***************************************************************************)
\* GameState::new
GameStateNew(mode, chosen, hand0, hand1) ==
    [mode |-> mode,
     phase |-> "playing",
     current_player |-> 0,
     board |-> [c \in Cells |->
                   [category |-> chosen[c[1] * BoardDim + c[2] + 1], card |-> None]],
     players |-> [p \in Players |->
                   [hand |-> IF p = 0 THEN hand0 ELSE hand1, score |-> 0,
                    wallet |-> None]],
     winner |-> None,
     has_placed |-> FALSE]

\* number of draws replenish_hand makes
Missing(hand) == IF Len(hand) < HAND_SIZE THEN HAND_SIZE - Len(hand) ELSE 0

\* GameState::replenish_hand, the draws being `run`
replenish_hand(g, player, run) ==
    [g EXCEPT !.players[player].hand = @ \o run]

\* variant: the match ends only above WIN_SCORE
check_winner_above(g) ==
    IF g.players[0].score > WIN_SCORE
    THEN [g EXCEPT !.winner = Some(0), !.phase = "gameover"]
    ELSE IF g.players[1].score > WIN_SCORE
    THEN [g EXCEPT !.winner = Some(1), !.phase = "gameover"]
    ELSE g
\* GameState::check_winner
check_winner(g) ==
    IF g.players[0].score >= WIN_SCORE
    THEN [g EXCEPT !.winner = Some(0), !.phase = "gameover"]
    ELSE IF g.players[1].score >= WIN_SCORE
    THEN [g EXCEPT !.winner = Some(1), !.phase = "gameover"]
    ELSE g

\* variant: the refill stops one card short
advance_turn_short(g, run) ==
    [replenish_hand(g, g.current_player, SubSeq(run, 1, Len(run) - 1)) EXCEPT
        !.current_player = 1 - @, !.has_placed = FALSE]
\* variant: has_placed survives the end of the turn
advance_turn_keep_flag(g, run) ==
    [replenish_hand(g, g.current_player, run) EXCEPT !.current_player = 1 - @]
\* GameState::advance_turn, the draws being `run`
advance_turn(g, run) ==
    [replenish_hand(g, g.current_player, run) EXCEPT
        !.current_player = 1 - @, !.has_placed = FALSE]

(***************************************************************************)
(* Vec helpers, indices counted from 0 as in the code.                     *)
(***************************************************************************)
At(seq, i) == seq[i + 1]
\* Vec::remove(i) for i < len
RemoveAt(seq, i) == SubSeq(seq, 1, i) \o SubSeq(seq, i + 2, Len(seq))

RECURSIVE InsertDesc(_, _)
InsertDesc(x, sorted) ==
    IF sorted = << >> THEN <<x>>
    ELSE IF x >= Head(sorted) THEN <<x>> \o sorted
    ELSE <<Head(sorted)>> \o InsertDesc(x, Tail(sorted))
RECURSIVE SortDesc(_)
\* sort_unstable_by(|a, b| b.cmp(a))
SortDesc(s) == IF s = << >> THEN << >> ELSE InsertDesc(Head(s), SortDesc(Tail(s)))

RECURSIVE Dedup(_)
\* Vec::dedup: consecutive repeats removed
Dedup(s) ==
    IF Len(s) < 2 THEN s
    ELSE IF s[1] = s[2] THEN Dedup(Tail(s))
    ELSE <<Head(s)>> \o Dedup(Tail(s))

RECURSIVE RemoveGuarded(_, _)
\* for idx in sorted_indices { if idx < hand.len() { hand.remove(idx); } }
RemoveGuarded(hand, idxs) ==
    IF idxs = << >> THEN hand
    ELSE RemoveGuarded(IF Head(idxs) < Len(hand) THEN RemoveAt(hand, Head(idxs))
                       ELSE hand, Tail(idxs))

(***************************************************************************)
(* State.                                                                  *)
(*   games    AppState.games: match id -> GameState                        *)
(*   cache    AppState.card_cache: crafted-card id -> CachedCard           *)
(*   threads  the requests in flight: where each handler stands and the    *)
(*            locals it carries over its awaits                            *)
(*   out      the response sent by the last step, None if it sent none     *)
(*   left     the requests the clients may still send                      *)
(***************************************************************************)
VARIABLES games, cache, threads, out, left
vars == <<games, cache, threads, out, left>>

\* one handler task more than Spec runs at a time, for RaceSpec
Slots == 1..(MaxInFlight + 1)
Idle == [pc |-> "idle"]
Busy == {t \in Slots : threads[t].pc # "idle"}
FreeSlot == CHOOSE t \in Slots \ Busy : \A u \in Slots \ Busy : t <= u
\* a request is accepted while fewer than `width` are in flight
CanStart(width) == Cardinality(Busy) < width /\ left > 0

GameIds == {"g1"}

\* HashMap::new
EmptyMap == [x \in {} |-> x]
\* HashMap::insert
MapInsert(map, k, v) == [x \in DOMAIN map \cup {k} |-> IF x = k THEN v ELSE map[x]]

\* Result<Json, (StatusCode, Json<ApiError>)> as sent to the client
Ok(op, via, result, info) ==
    Some([op |-> op, via |-> via, code |-> 200, result |-> result, info |-> info])
Err(op, via, code, msg) ==
    Some([op |-> op, via |-> via, code |-> code, result |-> msg, info |-> None])
\* the handler's task panicked: the connection is closed without a response
Panicked(op, via) ==
    Some([op |-> op, via |-> via, code |-> 0, result |-> "panic", info |-> None])

(***************************************************************************)
(* Inputs: the requests clients send and the answers of the Oracle and the *)
(* Renderer, each drawn from a small set.                                  *)
(***************************************************************************)
GameModes == {"pvp", "bot"}
CombineIndexLists ==
    { <<0, 1>>, <<1, 0>>, <<0, 0>>, <<0, 1, 2>>, <<2, 3>>, <<3, 2>>, <<0>>, <<0, 7>>,
      <<0, 0, 1>>, <<0, 1, 2, 3, 4>> }
DiscardIndexLists == { <<0>>, <<3, 2, 3>>, << >>, <<0, 1, 2, 3>>, <<7>> }
HandIndexes == 0..HAND_SIZE
Coords == 0..BoardDim

\* Oracle /combine: the call fails, or answers a name and a description
OracleFailures == {"transport", "status", "parse"}
OracleNames == {"Steam", "NOT POSSIBLE.", "Not possible"}
OracleDescriptions == {"made"}
CombineAnswers ==
    [fail : OracleFailures] \cup [name : OracleNames, description : OracleDescriptions]

\* the error each failure of the /combine call is answered with
\* (lines 258, 262-265, 271; the `{e}` detail is left out)
OracleError(fail) ==
    CASE fail = "transport" -> "Generation server error"
      [] fail = "status"    -> "Combination failed"
      [] fail = "parse"     -> "Parse error"

\* Oracle /generate-image followed by render_card and the file write
ImageOutcomes == {"ok", "transport", "status", "read", "render", "write"}
\* variant: a failed file write is ignored
ImageOkOrUnwritten(outcome) == outcome \in {"ok", "write"}
\* lines 341-384: every step succeeded
ImageOk(outcome) == outcome = "ok"
\* the status and the error of each failure (lines 351, 354, 360, 364, 384)
ImageCode(outcome) == IF outcome \in {"render", "write"} THEN 500 ELSE 502
ImageError(outcome) ==
    CASE outcome = "transport" -> "Image generation error"
      [] outcome = "status"    -> "Image generation failed"
      [] outcome = "read"      -> "Image read error"
      [] outcome = "render"    -> "Card render error"
      [] outcome = "write"     -> "File write error"
      [] OTHER                 -> "none"

\* the error each failure of the /judge call is answered with
\* (lines 602, 605, 611)
JudgeError(fail) ==
    CASE fail = "transport" -> "Judge error"
      [] fail = "status"    -> "Judge call failed"
      [] fail = "parse"     -> "Judge parse error"

\* Oracle /judge: the call fails, or answers a winner (missing: read as "a")
JudgeAnswers ==
    [fail : OracleFailures] \cup [winner : {<< >>, <<"a">>, <<"b">>, <<"tie">>}]

\* Oracle /bot-combine and /bot-place
BotCombineAnswers == [fail : OracleFailures] \cup [combine : CombineIndexLists \cup {<< >>}]
BotPlaceAnswers ==
    [fail : OracleFailures] \cup
    [skip : BOOLEAN, hand_index : HandIndexes, target_row : Coords, target_col : Coords]

Min(a, b) == IF a < b THEN a ELSE b

Known(id) == id \in DOMAIN games

\* the cells a place request may name: in row-major order the first empty
\* cell and the first cell of each owner, and one position off the board
CellNo(c) == c[1] * BoardDim + c[2]
First(cells) == {c \in cells : \A d \in cells : CellNo(c) <= CellNo(d)}
PlaceTargets(id) ==
    IF ~Known(id) THEN { <<0, 0>> }
    ELSE LET b == games[id].board
             owned(p) == {c \in Cells : b[c].card # None /\ b[c].card[1].owner = p}
         IN  First({c \in Cells : b[c].card = None})
             \cup First(owned(0)) \cup First(owned(1))
             \cup { <<BoardDim, BoardDim>> }

\* the cache keys a client can name in finalize-combine: the ids of the
\* crafted cards it has seen in a hand
FinalizeKeys(id) ==
    IF ~Known(id) THEN {0}
    ELSE {c.id : c \in {c \in UNION {Range(games[id].players[p].hand) : p \in Players} :
                          c.kind = "crafted"}} \cup {0}
FinalizeNames == {"Steam"}

(***************************************************************************)
(* new_game                                                                *)
(***************************************************************************)
\* the mint address of every NFT selection
Mint == "mint"
\* the wallet addresses a request may carry
Wallets == {None, Some("wallet")}
\* the NFT selections (card ids) a request may carry: none, a base card and
\* the card crafted of two Waters, or five cards
NftCardLists ==
    { << >>,
      <<compute_base_card_id("Water"),
        compute_crafted_card_id(<<compute_base_card_id("Water"),
                                  compute_base_card_id("Water")>>, NoIntent)>>,
      [i \in 1..5 |-> compute_base_card_id("Water")] }
\* lines 78-93: ownership is not checked (no wallet in the request, or no
\* Ledger configured), or the Ledger is asked
Ownerships(wallet) ==
    IF wallet = None THEN {"unchecked"}
    ELSE {"unchecked", "owned", "not_owned", "query_failed"}

\* lines 100-113: the hand card of one selection, if its id is known
NftHandCard(c, card_id) ==
    IF \E b \in Range(base_cards) : b.id = card_id
    THEN LET first == CHOOSE i \in 1..Len(base_cards) :
                        /\ base_cards[i].id = card_id
                        /\ \A j \in 1..(i - 1) : base_cards[j].id # card_id
         IN  << from_base(base_cards[first]) @@ [nft_mint |-> Mint] >>
    ELSE IF card_id \in DOMAIN c
    THEN << [name |-> c[card_id].name, description |-> c[card_id].description,
             kind |-> "crafted", image_path |-> c[card_id].image_path,
             id |-> c[card_id].id, nft_mint |-> Mint] >>
    ELSE << >>
RECURSIVE NftHandCards(_, _)
\* lines 96-114
NftHandCards(c, card_ids) ==
    IF card_ids = << >> THEN << >>
    ELSE NftHandCard(c, Head(card_ids)) \o NftHandCards(c, Tail(card_ids))

\* variant: the NFT cards are put in front of the hand
ReplaceFirstAppend(hand, nft_hand_cards) == nft_hand_cards \o hand
\* lines 116-122: the first cards of the hand are replaced
ReplaceFirst(hand, nft_hand_cards) ==
    [i \in 1..Len(hand) |->
        IF i <= Len(nft_hand_cards) THEN nft_hand_cards[i] ELSE hand[i]]

NewGame(width) ==
    /\ CanStart(width)
    /\ left' = left - 1
    /\ \E id \in GameIds \ DOMAIN games, mode \in GameModes, chosen \in Shuffles,
          run \in RngRuns(2 * HAND_SIZE), nft_cards \in NftCardLists,
          wallet_address \in Wallets :
        \E owned \in Ownerships(wallet_address) :
          LET game == GameStateNew(mode, chosen, SubSeq(run, 1, HAND_SIZE),
                                   SubSeq(run, HAND_SIZE + 1, 2 * HAND_SIZE))
          IN
          IF nft_cards # << >> /\ Len(nft_cards) > 4
          THEN /\ out' = Err("new_game", "human", 400, "Max 4 NFT cards")
               /\ UNCHANGED games
          ELSE IF nft_cards # << >> /\ owned = "query_failed"
          THEN /\ out' = Err("new_game", "human", 502, "query_owned_cards")
               /\ UNCHANGED games
          ELSE IF nft_cards # << >> /\ owned = "not_owned"
          THEN /\ out' = Err("new_game", "human", 400, "NFT not owned by wallet")
               /\ UNCHANGED games
          ELSE /\ games' = MapInsert(games, id,
                    [game EXCEPT
                        !.players[0].hand =
                            ReplaceFirst(@, NftHandCards(cache, nft_cards)),
                        !.players[0].wallet = wallet_address])
               /\ out' = Ok("new_game", "human", "created", None)
    /\ UNCHANGED <<cache, threads>>

\* get_game
GetGame(width) ==
    /\ CanStart(width)
    /\ left' = left - 1
    /\ \E id \in GameIds :
          out' = IF Known(id) THEN Ok("get_game", "human", "game", None)
                 ELSE Err("get_game", "human", 404, "Game not found")
    /\ UNCHANGED <<games, cache, threads>>

(***************************************************************************)
(* combine                                                                 *)
(***************************************************************************)
Selected(hand, idxs) == [i \in 1..Len(idxs) |-> At(hand, idxs[i])]
IsIntent(c) == c.kind = "intent"
NotIntent(c) == c.kind # "intent"
MaterialLike(c) == c.kind = "material" \/ c.kind = "crafted"
\* iter().filter(..).count()
Count(seq) == Len(seq)
IdsOf(cards) == [i \in 1..Len(cards) |-> cards[i].id]

\* lines 193-203: the cache key of a selection
CombineKey(selected) ==
    LET ints == SelectSeq(selected, IsIntent)
    IN  compute_crafted_card_id(IdsOf(SelectSeq(selected, NotIntent)),
                                IF ints = << >> THEN NoIntent ELSE ints[1].id)

\* variant: the number of selected cards is not checked
CombineCheckAnySize(hand, idxs) ==
    IF \E i \in 1..Len(idxs) : idxs[i] >= Len(hand) THEN "Invalid card index"
    ELSE IF Count(SelectSeq(Selected(hand, idxs), MaterialLike)) < 1
         THEN "Need at least 1 material card"
    ELSE IF Count(SelectSeq(Selected(hand, idxs), IsIntent)) > 1 THEN "At most 1 intent allowed"
    ELSE "ok"
\* variant: a selection with several intents passes
CombineCheckManyIntents(hand, idxs) ==
    IF Len(idxs) < 2 \/ Len(idxs) > 4 THEN "Select 2-4 cards to combine"
    ELSE IF \E i \in 1..Len(idxs) : idxs[i] >= Len(hand) THEN "Invalid card index"
    ELSE IF Count(SelectSeq(Selected(hand, idxs), MaterialLike)) < 1
         THEN "Need at least 1 material card"
    ELSE "ok"
\* lines 163-191: the validation of a selection against the snapshot
CombineCheck(hand, idxs) ==
    IF Len(idxs) < 2 \/ Len(idxs) > 4 THEN "Select 2-4 cards to combine"
    ELSE IF \E i \in 1..Len(idxs) : idxs[i] >= Len(hand) THEN "Invalid card index"
    ELSE IF Count(SelectSeq(Selected(hand, idxs), MaterialLike)) < 1
         THEN "Need at least 1 material card"
    ELSE IF Count(SelectSeq(Selected(hand, idxs), IsIntent)) > 1 THEN "At most 1 intent allowed"
    ELSE "ok"

\* combine returns Err: to the client, or to bot_combine, which then skips
CombineFails(t, id, via, code, msg) ==
    IF via = "bot"
    THEN /\ threads' = [threads EXCEPT ![t] =
                [pc |-> "bot_skip", op |-> "bot_combine", id |-> id,
                 result |-> "bot_failed"]]
         /\ out' = None
    ELSE /\ threads' = [threads EXCEPT ![t] = Idle]
         /\ out' = Err("combine", via, code, msg)

\* what a combine handler holds after its snapshot (lines 150-203)
CombineThread(g, id, via, idxs, async) ==
    [pc |-> "combine_cache", op |-> "combine", via |-> via,
     id |-> id, player_idx |-> g.current_player,
     card_indices |-> idxs, async_image |-> async,
     key |-> CombineKey(Selected(g.players[g.current_player].hand, idxs))]

\* lines 150-203: snapshot under the read lock, validation, cache key
CombineEnter(t, id, via, idxs, async) ==
    IF ~Known(id) THEN CombineFails(t, id, via, 404, "Game not found")
    ELSE IF games[id].phase = "gameover"
    THEN CombineFails(t, id, via, 400, "Game is over")
    ELSE LET player_idx == games[id].current_player
             hand == games[id].players[player_idx].hand
         IN  IF CombineCheck(hand, idxs) # "ok"
             THEN CombineFails(t, id, via, 400, CombineCheck(hand, idxs))
             ELSE /\ threads' = [threads EXCEPT ![t] =
                        CombineThread(games[id], id, via, idxs, async)]
                  /\ out' = None

CombineStart(width) ==
    /\ CanStart(width)
    /\ left' = left - 1
    /\ \E id \in GameIds, idxs \in CombineIndexLists, async \in BOOLEAN :
          CombineEnter(FreeSlot, id, "human", idxs, async)
    /\ UNCHANGED <<games, cache>>

\* variant: the crafted card gets a name of its own
CraftedHandCardUnnamed(name, description, image_path, id) ==
    [name |-> "Unknown", description |-> description, kind |-> "crafted",
     image_path |-> image_path, id |-> id]
\* lines 428-435 and 320-327: the crafted card pushed onto the hand
CraftedHandCard(name, description, image_path, id) ==
    [name |-> name, description |-> description, kind |-> "crafted",
     image_path |-> image_path, id |-> id]

\* variant: the selected cards stay in the hand
RemoveUsedNone(hand, idxs) == hand
\* variant: the indices are removed in the order given
RemoveUsedUnsorted(hand, idxs) == RemoveGuarded(hand, idxs)
\* lines 418-425 and 310-317: the selected cards leave the hand
RemoveUsed(hand, idxs) == RemoveGuarded(hand, SortDesc(idxs))

\* the hand after a combine commit: used cards out, the crafted card last
CombineInto(g, player_idx, idxs, card) ==
    [g EXCEPT !.players[player_idx].hand = RemoveUsed(@, idxs) \o <<card>>]

\* finish_combine
finish_combine(t, cached, is_new) ==
    LET th == threads[t] IN
    IF ~Known(th.id) THEN
        /\ CombineFails(t, th.id, th.via, 404, "Game not found")
        /\ UNCHANGED games
    ELSE
        /\ games' = [games EXCEPT ![th.id] =
                        CombineInto(@, th.player_idx, th.card_indices,
                            CraftedHandCard(cached.name, cached.description,
                                            cached.image_path, cached.id))]
        /\ threads' = [threads EXCEPT ![t] = Idle]
        /\ out' = Ok("combine", th.via, "crafted",
                     Some([name |-> cached.name, description |-> cached.description,
                           image_path |-> cached.image_path, is_new |-> is_new]))

At_pc(t, pc) == threads[t].pc = pc

\* line 209: a cached verdict "impossible"
CacheHitImpossible(cached) == cached.impossible

\* variant: every hit counts as new
IsNewAlways(cached) == TRUE
\* line 215
IsNew(cached) == ~cached.discovered

\* lines 205-233: the cache check; on a hit the commit follows under the
\* same cache lock
CombineCache(t) ==
    /\ At_pc(t, "combine_cache")
    /\ UNCHANGED left
    /\ LET th == threads[t] IN
       IF th.key \in DOMAIN cache
       THEN LET cached == cache[th.key] IN
            IF CacheHitImpossible(cached)
            THEN /\ CombineFails(t, th.id, th.via, 422, "Combination not possible")
                 /\ UNCHANGED <<games, cache>>
            ELSE /\ cache' = IF IsNew(cached)
                             THEN MapInsert(cache, th.key,
                                            [cached EXCEPT !.discovered = TRUE])
                             ELSE cache
                 /\ finish_combine(t, cached, IsNew(cached))
       ELSE /\ threads' = [threads EXCEPT ![t].pc = "combine_oracle"]
            /\ out' = None
            /\ UNCHANGED <<games, cache>>

\* format!("/cards/crafted/{safe_name}-{key}.png")
ServePath(name, key) == <<"crafted">> \o SafeName(name) \o <<ToString(key)>>

ImpossibleEntry(key) ==
    [name |-> "Not possible", description |-> "", image_path |-> << >>,
     id |-> key, discovered |-> FALSE, impossible |-> TRUE]

\* lines 303-339: the deferred-image commit of a pending card
CommitPending(t, name, description) ==
    LET th == threads[t] IN
    IF ~Known(th.id) THEN
        /\ CombineFails(t, th.id, th.via, 404, "Game not found")
        /\ UNCHANGED games
    ELSE
        /\ games' = [games EXCEPT ![th.id] =
                        CombineInto(@, th.player_idx, th.card_indices,
                            CraftedHandCard(name, description, << >>, th.key))]
        /\ threads' = [threads EXCEPT ![t] = Idle]
        /\ out' = Ok("combine", th.via, "crafted",
                     Some([name |-> name, description |-> description,
                           is_new |-> TRUE, image_pending |-> TRUE,
                           cache_key |-> th.key]))

\* lines 252-339: the Oracle's answer to /combine
CombineOracle(t) ==
    /\ At_pc(t, "combine_oracle")
    /\ UNCHANGED left
    /\ \E ans \in CombineAnswers :
        LET th == threads[t] IN
        IF "fail" \in DOMAIN ans
        THEN /\ CombineFails(t, th.id, th.via, 502, OracleError(ans.fail))
             /\ UNCHANGED <<games, cache>>
        ELSE IF IsNotPossible(ans.name)
        THEN /\ cache' = MapInsert(cache, th.key, ImpossibleEntry(th.key))
             /\ CombineFails(t, th.id, th.via, 422, "Combination not possible")
             /\ UNCHANGED games
        ELSE IF th.async_image
        THEN /\ CommitPending(t, ans.name, ans.description)
             /\ UNCHANGED cache
        ELSE /\ threads' = [threads EXCEPT ![t] =
                    [th EXCEPT !.pc = "combine_image"] @@
                    [name |-> ans.name, description |-> ans.description]]
             /\ out' = None
             /\ UNCHANGED <<games, cache>>

\* lines 341-400: image generation, rendering, the file and the cache entry
CombineImage(t) ==
    /\ At_pc(t, "combine_image")
    /\ UNCHANGED left
    /\ \E outcome \in ImageOutcomes :
        LET th == threads[t]
            cached == [name |-> th.name, description |-> th.description,
                       image_path |-> ServePath(th.name, th.key), id |-> th.key,
                       discovered |-> TRUE, impossible |-> FALSE]
        IN
        IF ImageOk(outcome)
        THEN /\ cache' = MapInsert(cache, th.key, cached)
             /\ threads' = [threads EXCEPT ![t] =
                    [pc |-> "combine_commit", op |-> "combine", via |-> th.via,
                     id |-> th.id, player_idx |-> th.player_idx,
                     card_indices |-> th.card_indices, cached |-> cached]]
             /\ out' = None
             /\ UNCHANGED games
        ELSE /\ CombineFails(t, th.id, th.via, ImageCode(outcome), ImageError(outcome))
             /\ UNCHANGED <<games, cache>>

\* line 402: finish_combine after a synchronous miss
CombineCommit(t) ==
    /\ At_pc(t, "combine_commit")
    /\ UNCHANGED left
    /\ finish_combine(t, threads[t].cached, TRUE)
    /\ UNCHANGED cache

(***************************************************************************)
(* finalize_combine                                                        *)
(***************************************************************************)
\* the cache entry finalize_combine inserts (lines 499-506)
FinalizedEntry(key, name, description) ==
    [name |-> name, description |-> description,
     image_path |-> ServePath(name, key), id |-> key,
     discovered |-> TRUE, impossible |-> FALSE]

\* lines 453-513: image generation, rendering, the file and the cache entry
FinalizeStart(width) ==
    /\ CanStart(width)
    /\ left' = left - 1
    /\ \E id \in GameIds : \E key \in FinalizeKeys(id), name \in FinalizeNames,
          description \in OracleDescriptions, outcome \in ImageOutcomes :
        IF ImageOk(outcome)
        THEN /\ cache' = MapInsert(cache, key, FinalizedEntry(key, name, description))
             /\ threads' = [threads EXCEPT ![FreeSlot] =
                    [pc |-> "finalize_commit", op |-> "finalize_combine",
                     id |-> id, cache_key |-> key,
                     serve_path |-> ServePath(name, key)]]
             /\ out' = None
        ELSE /\ out' = Err("finalize_combine", "human",
                           ImageCode(outcome), ImageError(outcome))
             /\ UNCHANGED <<cache, threads>>
    /\ UNCHANGED games

Pending(card, key) == card.id = key /\ card.image_path = << >>

\* lines 522-527: the first pending card with the key gets the path
FillPending(hand, key, path) ==
    IF \E i \in 1..Len(hand) : Pending(hand[i], key)
    THEN LET first == CHOOSE i \in 1..Len(hand) :
                        /\ Pending(hand[i], key)
                        /\ \A j \in 1..(i - 1) : ~Pending(hand[j], key)
         IN  [hand EXCEPT ![first].image_path = path]
    ELSE hand

\* lines 515-532
FinalizeCommit(t) ==
    /\ At_pc(t, "finalize_commit")
    /\ UNCHANGED left
    /\ LET th == threads[t] IN
       IF ~Known(th.id)
       THEN /\ out' = Err("finalize_combine", "human", 404, "Game not found")
            /\ UNCHANGED games
       ELSE /\ games' = [games EXCEPT
                  ![th.id].players[games[th.id].current_player].hand =
                      FillPending(@, th.cache_key, th.serve_path)]
            /\ out' = Ok("finalize_combine", "human", "finalized", None)
    /\ threads' = [threads EXCEPT ![t] = Idle]
    /\ UNCHANGED cache

(***************************************************************************)
(* place                                                                   *)
(***************************************************************************)
\* place returns Err: to the client, or to bot_place, which then skips
PlaceFails(t, id, via, code, msg) ==
    IF via = "bot"
    THEN /\ threads' = [threads EXCEPT ![t] =
                [pc |-> "bot_skip", op |-> "bot_place", id |-> id,
                 result |-> "bot_skipped_place"]]
         /\ out' = None
    ELSE /\ threads' = [threads EXCEPT ![t] = Idle]
         /\ out' = Err("place", via, code, msg)

\* place returns Ok: to the client, or to bot_place, which then ends the turn
PlaceSucceeds(t, id, via, result, judgment) ==
    IF via = "bot"
    THEN /\ threads' = [threads EXCEPT ![t] =
                [pc |-> "bot_after_place", op |-> "bot_place", id |-> id,
                 result |-> result, judgment |-> judgment]]
         /\ out' = None
    ELSE /\ threads' = [threads EXCEPT ![t] = Idle]
         /\ out' = Ok("place", via, result, judgment)

\* lines 569-574
CraftedOf(hand_card) ==
    [name |-> hand_card.name, description |-> hand_card.description,
     image_path |-> hand_card.image_path, id |-> hand_card.id]

\* variant: a second placement in the turn is not refused
PlaceCheckAgain(g, hand_index, row, col) ==
    LET player_idx == g.current_player
        hand == g.players[player_idx].hand
    IN  IF g.phase = "gameover" THEN "Game is over"
        ELSE IF row >= BoardDim \/ col >= BoardDim THEN "Invalid board position"
        ELSE IF hand_index >= Len(hand) THEN "Invalid card index"
        ELSE IF At(hand, hand_index).kind # "crafted"
        THEN "Only crafted cards can be placed"
        ELSE IF g.board[<<row, col>>].card # None
                /\ g.board[<<row, col>>].card[1].owner = player_idx
        THEN "You already own this cell"
        ELSE "ok"
\* variant: the player's own cell is not refused
PlaceCheckOwnCell(g, hand_index, row, col) ==
    LET player_idx == g.current_player
        hand == g.players[player_idx].hand
    IN  IF g.phase = "gameover" THEN "Game is over"
        ELSE IF g.has_placed THEN "Already placed a card this turn"
        ELSE IF row >= BoardDim \/ col >= BoardDim THEN "Invalid board position"
        ELSE IF hand_index >= Len(hand) THEN "Invalid card index"
        ELSE IF At(hand, hand_index).kind # "crafted"
        THEN "Only crafted cards can be placed"
        ELSE "ok"
\* lines 545-583: the validation of a placement against the snapshot
PlaceCheck(g, hand_index, row, col) ==
    LET player_idx == g.current_player
        hand == g.players[player_idx].hand
    IN  IF g.phase = "gameover" THEN "Game is over"
        ELSE IF g.has_placed THEN "Already placed a card this turn"
        ELSE IF row >= BoardDim \/ col >= BoardDim THEN "Invalid board position"
        ELSE IF hand_index >= Len(hand) THEN "Invalid card index"
        ELSE IF At(hand, hand_index).kind # "crafted"
        THEN "Only crafted cards can be placed"
        ELSE IF g.board[<<row, col>>].card # None
                /\ g.board[<<row, col>>].card[1].owner = player_idx
        THEN "You already own this cell"
        ELSE "ok"

\* line 585: an occupied cell (of the opponent) goes to the judge
Contested(g, row, col) == g.board[<<row, col>>].card # None

\* lines 540-583: snapshot under the read lock and validation
\* what a place handler holds after its snapshot (lines 540-583)
PlaceThread(g, id, via, hand_index, row, col) ==
    [pc |-> IF Contested(g, row, col) THEN "place_judge" ELSE "place_commit",
     op |-> "place", via |-> via, id |-> id,
     player_idx |-> g.current_player, hand_index |-> hand_index,
     row |-> row, col |-> col,
     crafted |-> CraftedOf(At(g.players[g.current_player].hand, hand_index))]

PlaceEnter(t, id, via, hand_index, row, col) ==
    IF ~Known(id) THEN PlaceFails(t, id, via, 404, "Game not found")
    ELSE LET g == games[id] IN
         IF PlaceCheck(g, hand_index, row, col) # "ok"
         THEN PlaceFails(t, id, via, 400, PlaceCheck(g, hand_index, row, col))
         ELSE /\ threads' = [threads EXCEPT ![t] =
                    PlaceThread(g, id, via, hand_index, row, col)]
              /\ out' = None

PlaceStart(width) ==
    /\ CanStart(width)
    /\ left' = left - 1
    /\ \E id \in GameIds : \E hand_index \in HandIndexes, cell \in PlaceTargets(id) :
          PlaceEnter(FreeSlot, id, "human", hand_index, cell[1], cell[2])
    /\ UNCHANGED <<games, cache>>

SaturatingSub(a, b) == IF a >= b THEN a - b ELSE 0

\* variant: the previous owner keeps its point
DecrementNever(g, cell, player_idx) == g
\* lines 645-651: a replaced opponent card costs its owner one point
DecrementPrevOwner(g, cell, player_idx) ==
    IF g.board[cell].card # None /\ g.board[cell].card[1].owner # player_idx
    THEN [g EXCEPT !.players[g.board[cell].card[1].owner].score = SaturatingSub(@, 1)]
    ELSE g

\* variant: the cell is replaced whole, labelled with the card's name
SetCellRelabel(g, cell, crafted, player_idx) ==
    [g EXCEPT !.board[cell] = [category |-> crafted.name,
                               card |-> Some([card |-> crafted, owner |-> player_idx])]]
\* lines 653-656
SetCell(g, cell, crafted, player_idx) ==
    [g EXCEPT !.board[cell].card = Some([card |-> crafted, owner |-> player_idx])]

\* variant: the placement scores nothing
ScoreKeep(g, player_idx, hand_index) ==
    check_winner([g EXCEPT !.players[player_idx].hand = RemoveAt(@, hand_index),
                           !.has_placed = TRUE])
\* lines 657-660, for hand_index inside the hand
TakeAndScore(g, player_idx, hand_index) ==
    check_winner([g EXCEPT !.players[player_idx].hand = RemoveAt(@, hand_index),
                           !.players[player_idx].score = @ + 1,
                           !.has_placed = TRUE])

\* the match after a committed placement
PlaceInto(g, player_idx, hand_index, cell, crafted) ==
    TakeAndScore(SetCell(DecrementPrevOwner(g, cell, player_idx),
                         cell, crafted, player_idx),
                 player_idx, hand_index)

\* variant: the commit looks at has_placed again
PlaceApplyOnce(t, judgment) ==
    LET th == threads[t]
        g == games[th.id]
        cell == <<th.row, th.col>>
        written == SetCell(DecrementPrevOwner(g, cell, th.player_idx),
                           cell, th.crafted, th.player_idx)
    IN
    IF g.has_placed
    THEN /\ PlaceFails(t, th.id, th.via, 400, "Already placed a card this turn")
         /\ UNCHANGED games
    ELSE IF th.hand_index >= Len(g.players[th.player_idx].hand)
    THEN /\ games' = [games EXCEPT ![th.id] = written]
         /\ threads' = [threads EXCEPT ![t] = Idle]
         /\ out' = Panicked("place", th.via)
    ELSE /\ games' = [games EXCEPT ![th.id] =
                         PlaceInto(g, th.player_idx, th.hand_index, cell, th.crafted)]
         /\ PlaceSucceeds(t, th.id, th.via,
                          IF judgment # None THEN "conquered" ELSE "placed", judgment)
\* lines 641-666: the commit under the write lock.  Vec::remove panics on an
\* index past the end: the task dies after the cell (and the previous
\* owner's score) were written; tokio's lock is released, not poisoned.
\* `judgment` is the judge's verdict, None when no judge was asked.
PlaceApply(t, judgment) ==
    LET th == threads[t]
        g == games[th.id]
        cell == <<th.row, th.col>>
        written == SetCell(DecrementPrevOwner(g, cell, th.player_idx),
                           cell, th.crafted, th.player_idx)
    IN
    IF th.hand_index >= Len(g.players[th.player_idx].hand)
    THEN /\ games' = [games EXCEPT ![th.id] = written]
         /\ threads' = [threads EXCEPT ![t] = Idle]
         /\ out' = Panicked("place", th.via)
    ELSE /\ games' = [games EXCEPT ![th.id] =
                         PlaceInto(g, th.player_idx, th.hand_index, cell, th.crafted)]
         /\ PlaceSucceeds(t, th.id, th.via,
                          IF judgment # None THEN "conquered" ELSE "placed", judgment)

\* the commit of a placement on a cell that was empty in the snapshot
PlaceCommit(t) ==
    /\ At_pc(t, "place_commit")
    /\ UNCHANGED left
    /\ PlaceApply(t, None)
    /\ UNCHANGED cache

\* line 613: judge_result["winner"].as_str().unwrap_or("a")
JudgeWinner(ans) == IF ans.winner = None THEN "a" ELSE ans.winner[1]

\* variant: the verdict is ignored
AttackerWinsAlways(winner) == TRUE
\* line 627: anything but "a" lets the attacker through
AttackerWins(winner) == winner # "a"

\* lines 585-639: the judge's answer, and the commit when the attacker wins
PlaceJudge(t) ==
    /\ At_pc(t, "place_judge")
    /\ UNCHANGED left
    /\ \E ans \in JudgeAnswers :
        LET th == threads[t] IN
        IF "fail" \in DOMAIN ans
        THEN /\ PlaceFails(t, th.id, th.via, 502, JudgeError(ans.fail))
             /\ UNCHANGED games
        ELSE IF ~AttackerWins(JudgeWinner(ans))
        THEN /\ PlaceSucceeds(t, th.id, th.via, "defended", Some(JudgeWinner(ans)))
             /\ UNCHANGED games
        ELSE PlaceApply(t, Some(JudgeWinner(ans)))
    /\ UNCHANGED cache

(***************************************************************************)
(* discard, end_turn                                                       *)
(***************************************************************************)
RECURSIVE RemoveEach(_, _)
\* for idx in sorted { hand.remove(idx); }
RemoveEach(hand, idxs) ==
    IF idxs = << >> THEN hand
    ELSE RemoveEach(RemoveAt(hand, Head(idxs)), Tail(idxs))

\* lines 684-698: the checks of discard
DiscardCheck(g, idxs) ==
    IF g.phase = "gameover" THEN "Game is over"
    ELSE IF idxs = << >> \/ Len(idxs) > 3 THEN "Discard 1-3 cards"
    ELSE IF \E i \in 1..Len(idxs) : idxs[i] >= Len(g.players[g.current_player].hand)
    THEN "Invalid card index"
    ELSE "ok"

\* variant: the indices are taken as given
DiscardOrderGiven(idxs) == idxs
\* lines 701-703: highest index first, repeats dropped
DiscardOrder(idxs) == Dedup(SortDesc(idxs))

\* lines 700-706
DiscardFrom(hand, idxs) == RemoveEach(hand, DiscardOrder(idxs))

Discard(width) ==
    /\ CanStart(width)
    /\ left' = left - 1
    /\ \E id \in GameIds, idxs \in DiscardIndexLists :
        IF ~Known(id)
        THEN /\ out' = Err("discard", "human", 404, "Game not found")
             /\ UNCHANGED games
        ELSE IF DiscardCheck(games[id], idxs) # "ok"
        THEN /\ out' = Err("discard", "human", 400, DiscardCheck(games[id], idxs))
             /\ UNCHANGED games
        ELSE /\ games' = [games EXCEPT
                    ![id].players[games[id].current_player].hand =
                        DiscardFrom(@, idxs)]
             /\ out' = Ok("discard", "human", "discarded", None)
    /\ UNCHANGED <<cache, threads>>

\* the draws that refill the hand of the player whose turn ends
TurnRuns(g) == RngRuns(Missing(g.players[g.current_player].hand))

EndTurn(width) ==
    /\ CanStart(width)
    /\ left' = left - 1
    /\ \E id \in GameIds :
        IF ~Known(id)
        THEN /\ out' = Err("end_turn", "human", 404, "Game not found")
             /\ UNCHANGED games
        ELSE IF games[id].phase = "gameover"
        THEN /\ out' = Err("end_turn", "human", 400, "Game is over")
             /\ UNCHANGED games
        ELSE \E run \in TurnRuns(games[id]) :
             /\ games' = [games EXCEPT ![id] = advance_turn(@, run)]
             /\ out' = Ok("end_turn", "human", "turn", None)
    /\ UNCHANGED <<cache, threads>>

(***************************************************************************)
(* bot_combine, bot_place                                                  *)
(***************************************************************************)
\* lines 768-783 and 855-870: the checks under the read lock
BotCheck(id) ==
    IF ~Known(id) THEN <<404, "Game not found">>
    ELSE IF games[id].mode # "bot" THEN <<400, "Not a bot game">>
    ELSE IF games[id].current_player # 1 THEN <<400, "Not bot's turn">>
    ELSE IF games[id].phase = "gameover" THEN <<400, "Game is over">>
    ELSE <<200, "ok">>

BotCombineStart(width) ==
    /\ CanStart(width)
    /\ left' = left - 1
    /\ \E id \in GameIds :
        IF BotCheck(id)[1] # 200
        THEN /\ out' = Err("bot_combine", "bot", BotCheck(id)[1], BotCheck(id)[2])
             /\ UNCHANGED threads
        ELSE /\ threads' = [threads EXCEPT ![FreeSlot] =
                    [pc |-> "bot_combine_oracle", op |-> "bot_combine", id |-> id]]
             /\ out' = None
    /\ UNCHANGED <<games, cache>>

\* the turn is skipped: advance_turn under the write lock
SkipTurn(t, op, id, result, info) ==
    \E run \in TurnRuns(games[id]) :
        /\ games' = [games EXCEPT ![id] = advance_turn(@, run)]
        /\ threads' = [threads EXCEPT ![t] = Idle]
        /\ out' = Ok(op, "bot", result, info)

\* lines 788-833: the Oracle's answer to /bot-combine, then combine is entered
BotCombineOracle(t) ==
    /\ At_pc(t, "bot_combine_oracle")
    /\ UNCHANGED left
    /\ \E ans \in BotCombineAnswers :
        LET th == threads[t] IN
        IF "fail" \in DOMAIN ans
        THEN IF ans.fail = "status"
             THEN SkipTurn(t, "bot_combine", th.id, "bot_failed", None)
             ELSE /\ threads' = [threads EXCEPT ![t] = Idle]
                  /\ out' = Err("bot_combine", "bot", 502,
                                 IF ans.fail = "parse" THEN "Parse error"
                                 ELSE "Bot combine error")
                  /\ UNCHANGED games
        ELSE /\ CombineEnter(t, th.id, "bot", ans.combine, FALSE)
             /\ UNCHANGED games
    /\ UNCHANGED cache

\* lines 837-846 and 962-971: combine or place returned Err
BotSkip(t) ==
    /\ At_pc(t, "bot_skip")
    /\ UNCHANGED left
    /\ SkipTurn(t, threads[t].op, threads[t].id, threads[t].result, None)
    /\ UNCHANGED cache

HasCrafted(hand) == \E i \in 1..Len(hand) : hand[i].kind = "crafted"

BotPlaceStart(width) ==
    /\ CanStart(width)
    /\ left' = left - 1
    /\ \E id \in GameIds :
        IF BotCheck(id)[1] # 200
        THEN /\ out' = Err("bot_place", "bot", BotCheck(id)[1], BotCheck(id)[2])
             /\ UNCHANGED threads
        ELSE /\ threads' = [threads EXCEPT ![FreeSlot] =
                    IF HasCrafted(games[id].players[1].hand)
                    THEN [pc |-> "bot_place_oracle", op |-> "bot_place", id |-> id]
                    ELSE [pc |-> "bot_skip", op |-> "bot_place", id |-> id,
                          result |-> "bot_skipped_place"]]
             /\ out' = None
    /\ UNCHANGED <<games, cache>>

\* the answers of /bot-place the model enumerates: the targets of
\* PlaceTargets, before clamping
BotDecisions(id) ==
    {ans \in BotPlaceAnswers :
        "fail" \in DOMAIN ans \/ <<ans.target_row, ans.target_col>> \in PlaceTargets(id)}

\* lines 888-944: the Oracle's answer to /bot-place, then place is entered
BotPlaceOracle(t) ==
    /\ At_pc(t, "bot_place_oracle")
    /\ UNCHANGED left
    /\ \E ans \in BotDecisions(threads[t].id) :
        LET th == threads[t] IN
        IF "fail" \in DOMAIN ans
        THEN IF ans.fail = "status"
             THEN SkipTurn(t, "bot_place", th.id, "bot_failed", None)
             ELSE /\ threads' = [threads EXCEPT ![t] = Idle]
                  /\ out' = Err("bot_place", "bot", 502,
                                 IF ans.fail = "parse" THEN "Parse error"
                                 ELSE "Bot place error")
                  /\ UNCHANGED games
        ELSE IF ans.skip
        THEN SkipTurn(t, "bot_place", th.id, "bot_skipped_place", None)
        ELSE /\ PlaceEnter(t, th.id, "bot", ans.hand_index,
                           Min(ans.target_row, BoardDim - 1),
                           Min(ans.target_col, BoardDim - 1))
             /\ UNCHANGED games
    /\ UNCHANGED cache

\* lines 946-961: place returned Ok
BotAfterPlace(t) ==
    /\ At_pc(t, "bot_after_place")
    /\ UNCHANGED left
    /\ LET th == threads[t] IN
       IF games[th.id].phase # "gameover"
       THEN SkipTurn(t, "bot_place", th.id, th.result, th.judgment)
       ELSE /\ threads' = [threads EXCEPT ![t] = Idle]
            /\ out' = Ok("bot_place", "bot", th.result, th.judgment)
            /\ UNCHANGED games
    /\ UNCHANGED cache

(***************************************************************************)
(* The system.  A run starts with the process just started (empty match    *)
(* store), or with a match in progress, reached from there by the          *)
(* sequential play MatchPoint spells out with the handlers' own commits.   *)
(***************************************************************************)
Water == from_base(base_cards[1])
SteamEntry(key) ==
    [name |-> "Steam", description |-> "made", image_path |-> ServePath("Steam", key),
     id |-> key, discovered |-> TRUE, impossible |-> FALSE]
EntryCard(e) == CraftedHandCard(e.name, e.description, e.image_path, e.id)
AllWater(n) == [i \in 1..n |-> Water]
\* the cache after Steam was crafted of two Waters
MatchPointCache ==
    LET key == CombineKey(<<Water, Water>>) IN MapInsert(EmptyMap, key, SteamEntry(key))

\* a cache file written before `discovered` was recorded: the entry of two
\* Waters is read with discovered = false (serde default)
LegacyCache ==
    LET key == CombineKey(<<Water, Water>>)
    IN  MapInsert(EmptyMap, key,
            [name |-> "Hot Mud!", description |-> "made",
             image_path |-> ServePath("Hot Mud!", key), id |-> key,
             discovered |-> FALSE, impossible |-> FALSE])

\* the persisted craft caches the process may load at start-up
InitCaches == { EmptyMap, MatchPointCache, LegacyCache }


\* one turn of the current player: combine [0, 1] (synchronous), place the
\* crafted card (last in the hand) on `cell`, combine [0, 1] again if
\* `again`, end the turn drawing materials
PlayTurn(g, cell, again) ==
    LET p == g.current_player
        key == CombineKey(Selected(g.players[p].hand, <<0, 1>>))
        crafted == CombineInto(g, p, <<0, 1>>, EntryCard(SteamEntry(key)))
        last == Len(crafted.players[p].hand) - 1
        placed == PlaceInto(crafted, p, last, cell,
                            CraftedOf(At(crafted.players[p].hand, last)))
        kept == IF again
                THEN CombineInto(placed, p, <<0, 1>>, EntryCard(SteamEntry(key)))
                ELSE placed
    IN  advance_turn(kept, AllWater(Missing(kept.players[p].hand)))

RECURSIVE PlayTurns(_, _, _)
PlayTurns(g, cells, again) ==
    IF cells = << >> THEN g
    ELSE LET next == PlayTurn(g, Head(cells), again)
         IN  IF next.phase = "gameover" THEN next
             ELSE PlayTurns(next, Tail(cells), again)

\* Scores 4 : 4, one empty cell, player 0 to move.  In its last turn each
\* player crafted once more after placing and kept that card; player 0 has
\* opened its turn with a deferred combine [4, 5, 6], not finalized yet.
MatchPoint ==
    LET start == GameStateNew("bot", categories, AllWater(HAND_SIZE), AllWater(HAND_SIZE))
        six == PlayTurns(start, << <<0, 0>>, <<0, 1>>, <<0, 2>>, <<1, 0>>,
                                   <<1, 1>>, <<1, 2>> >>, FALSE)
        eight == PlayTurns(six, << <<2, 0>>, <<2, 1>> >>, TRUE)
    IN  CombineInto(eight, 0, <<4, 5, 6>>,
                    CraftedHandCard("Steam", "made", << >>,
                                    CombineKey(<<Water, Water, Water>>)))
\* The same match two turns in: one cell and one point each, every player
\* holding the crafted card it kept, player 0 to move.
EarlyMatch ==
    PlayTurns(GameStateNew("bot", categories, AllWater(HAND_SIZE), AllWater(HAND_SIZE)),
              << <<0, 0>>, <<0, 1>> >>, TRUE)

Init ==
    /\ \/ games = EmptyMap /\ cache \in InitCaches
       \/ games = MapInsert(EmptyMap, "g1", EarlyMatch) /\ cache = MatchPointCache
       \/ games = MapInsert(EmptyMap, "g1", MatchPoint) /\ cache = MatchPointCache
    /\ threads = [t \in Slots |-> Idle]
    /\ out = None
    /\ left = MaxRequests

Next ==
    \/ NewGame(MaxInFlight)
    \/ GetGame(MaxInFlight)
    \/ CombineStart(MaxInFlight)
    \/ FinalizeStart(MaxInFlight)
    \/ PlaceStart(MaxInFlight)
    \/ Discard(MaxInFlight)
    \/ EndTurn(MaxInFlight)
    \/ BotCombineStart(MaxInFlight)
    \/ BotPlaceStart(MaxInFlight)
    \/ \E t \in Slots : CombineCache(t)
    \/ \E t \in Slots : CombineOracle(t)
    \/ \E t \in Slots : CombineImage(t)
    \/ \E t \in Slots : CombineCommit(t)
    \/ \E t \in Slots : FinalizeCommit(t)
    \/ \E t \in Slots : PlaceCommit(t)
    \/ \E t \in Slots : PlaceJudge(t)
    \/ \E t \in Slots : BotCombineOracle(t)
    \/ \E t \in Slots : BotPlaceOracle(t)
    \/ \E t \in Slots : BotSkip(t)
    \/ \E t \in Slots : BotAfterPlace(t)
Spec == Init /\ [][Next]_vars

\* requests processed one at a time
SeqNext ==
    \/ NewGame(1)
    \/ GetGame(1)
    \/ CombineStart(1)
    \/ FinalizeStart(1)
    \/ PlaceStart(1)
    \/ Discard(1)
    \/ EndTurn(1)
    \/ BotCombineStart(1)
    \/ BotPlaceStart(1)
    \/ \E t \in Slots : CombineCache(t)
    \/ \E t \in Slots : CombineOracle(t)
    \/ \E t \in Slots : CombineImage(t)
    \/ \E t \in Slots : CombineCommit(t)
    \/ \E t \in Slots : FinalizeCommit(t)
    \/ \E t \in Slots : PlaceCommit(t)
    \/ \E t \in Slots : PlaceJudge(t)
    \/ \E t \in Slots : BotCombineOracle(t)
    \/ \E t \in Slots : BotPlaceOracle(t)
    \/ \E t \in Slots : BotSkip(t)
    \/ \E t \in Slots : BotAfterPlace(t)
SeqSpec == Init /\ [][SeqNext]_vars

\* The server after start-up, or the match at MatchPoint with two place
\* requests of player 0's client in flight, both past their snapshot (hand
\* card 3 onto the empty cell): the state Spec reaches from MatchPoint by
\* two PlaceStart steps.  From here MaxRequests more requests arrive, one
\* handler more in flight.
RaceInit ==
    /\ \/ /\ games = EmptyMap
          /\ cache \in InitCaches
          /\ threads = [t \in Slots |-> Idle]
       \/ /\ games = MapInsert(EmptyMap, "g1", MatchPoint)
          /\ cache = MatchPointCache
          /\ threads = [t \in Slots |->
                          IF t <= MaxInFlight
                          THEN PlaceThread(MatchPoint, "g1", "human", 3,
                                           BoardDim - 1, BoardDim - 1)
                          ELSE Idle]
    /\ out = None
    /\ left = MaxRequests

RaceNext ==
    \/ NewGame(MaxInFlight + 1)
    \/ GetGame(MaxInFlight + 1)
    \/ CombineStart(MaxInFlight + 1)
    \/ FinalizeStart(MaxInFlight + 1)
    \/ PlaceStart(MaxInFlight + 1)
    \/ Discard(MaxInFlight + 1)
    \/ EndTurn(MaxInFlight + 1)
    \/ BotCombineStart(MaxInFlight + 1)
    \/ BotPlaceStart(MaxInFlight + 1)
    \/ \E t \in Slots : CombineCache(t)
    \/ \E t \in Slots : CombineOracle(t)
    \/ \E t \in Slots : CombineImage(t)
    \/ \E t \in Slots : CombineCommit(t)
    \/ \E t \in Slots : FinalizeCommit(t)
    \/ \E t \in Slots : PlaceCommit(t)
    \/ \E t \in Slots : PlaceJudge(t)
    \/ \E t \in Slots : BotCombineOracle(t)
    \/ \E t \in Slots : BotPlaceOracle(t)
    \/ \E t \in Slots : BotSkip(t)
    \/ \E t \in Slots : BotAfterPlace(t)
RaceSpec == RaceInit /\ [][RaceNext]_vars

\* The server after start-up, or the match at EarlyMatch with two deferred
\* combine requests of player 0's client in flight, both past their
\* snapshot (hand cards 2 and 3, a Water and the kept Steam): the state Spec
\* reaches from EarlyMatch by two CombineStart steps.  From here
\* MaxRequests - 1 more requests arrive, one handler more in flight.
StaleInit ==
    /\ \/ /\ games = EmptyMap
          /\ cache \in InitCaches
          /\ threads = [t \in Slots |-> Idle]
       \/ /\ games = MapInsert(EmptyMap, "g1", EarlyMatch)
          /\ cache = MatchPointCache
          /\ threads = [t \in Slots |->
                          IF t <= MaxInFlight
                          THEN CombineThread(EarlyMatch, "g1", "human", <<2, 3>>, TRUE)
                          ELSE Idle]
    /\ out = None
    /\ left = MaxRequests - 1
StaleSpec == StaleInit /\ [][RaceNext]_vars

(***************************************************************************)
(* Locking.  AppState.games and AppState.card_cache are tokio RwLocks: a   *)
(* lock is granted in the order of the requests (a reader queues behind a  *)
(* waiting writer), a guard is dropped at the end of its block or at the   *)
(* return.  Each handler is the list of its awaits and guard drops, one    *)
(* list per way through its code; the data is left out here.  A thread is  *)
(* "wait" (queued for the lock of its next instruction), "run" (inside a   *)
(* guarded block, about to drop the guard) or "call" (awaiting a service). *)
(***************************************************************************)
ReadLock(l) == <<"read", l>>
WriteLock(l) == <<"write", l>>
DropGuard(l) == <<"drop", l>>
Await(service) == <<"call", service>>

\* variant: the guard of the snapshot lives to the end of the handler
SnapshotHeld == <<ReadLock("games")>>
\* lines 150-159, 540-552, 768-783, 855-870, 138-142, 629-636: games.read()
\* in a block of its own
Snapshot == <<ReadLock("games"), DropGuard("games")>>
\* lines 130, 305-339, 413-446, 516-532, 642-671, 679-708, 715-726, 803-810,
\* 839-846, 876-883, 903-910, 921-928, 949-961, 964-971: games.write() up to
\* the return
Commit == <<WriteLock("games"), DropGuard("games")>>
\* lines 96-123: card_cache.read() to the end of the NFT block
CacheRead == <<ReadLock("card_cache"), DropGuard("card_cache")>>
\* lines 206-233 (no usable entry), 284-296, 396-400, 509-513:
\* card_cache.write() in a block of its own
CacheWrite == <<WriteLock("card_cache"), DropGuard("card_cache")>>
\* lines 206-233 with 405-446: on a hit finish_combine takes games.write()
\* inside the block that holds card_cache.write()
CacheHit ==
    <<WriteLock("card_cache"), WriteLock("games"),
      DropGuard("games"), DropGuard("card_cache")>>

\* new_game, lines 65-132
NewGamePaths ==
    { << >>, <<Await("ledger")>>, Commit, CacheRead \o Commit,
      <<Await("ledger")>> \o CacheRead \o Commit }
\* get_game, lines 134-143
GetGamePaths == { Snapshot }
\* combine returns Err, lines 145-402
CombineErrPaths ==
    { Snapshot,
      Snapshot \o CacheWrite,
      Snapshot \o CacheWrite \o <<Await("combine")>>,
      Snapshot \o CacheWrite \o <<Await("combine")>> \o CacheWrite,
      Snapshot \o CacheWrite \o <<Await("combine"), Await("generate-image")>>,
      Snapshot \o CacheWrite \o <<Await("combine"), Await("generate-image")>>
          \o CacheWrite \o Commit }
\* combine returns Ok: a hit, a deferred commit, a synchronous miss
CombineOkPaths ==
    { Snapshot \o CacheHit,
      Snapshot \o CacheWrite \o <<Await("combine")>> \o Commit,
      Snapshot \o CacheWrite \o <<Await("combine"), Await("generate-image")>>
          \o CacheWrite \o Commit }
\* variant: the match is locked before the cache entry is written
FinalizePathsNested ==
    { <<Await("generate-image")>>,
      <<Await("generate-image"), WriteLock("games"), WriteLock("card_cache"),
        DropGuard("card_cache"), DropGuard("games")>> }
\* finalize_combine, lines 448-533
FinalizePaths ==
    { <<Await("generate-image")>>,
      <<Await("generate-image")>> \o CacheWrite \o Commit }
\* place, lines 535-672
PlacePaths ==
    { Snapshot,
      Snapshot \o Commit,
      Snapshot \o <<Await("judge")>>,
      Snapshot \o <<Await("judge")>> \o Snapshot,
      Snapshot \o <<Await("judge")>> \o Commit }
\* discard and end_turn, lines 674-727
DiscardPaths == { Commit }
EndTurnPaths == { Commit }
\* bot_combine, lines 764-849
BotCombinePaths ==
    { Snapshot,
      Snapshot \o <<Await("bot-combine")>>,
      Snapshot \o <<Await("bot-combine")>> \o Commit }
    \cup { Snapshot \o <<Await("bot-combine")>> \o p : p \in CombineOkPaths }
    \cup { Snapshot \o <<Await("bot-combine")>> \o p \o Commit : p \in CombineErrPaths }
\* bot_place, lines 851-973
BotPlacePaths ==
    { Snapshot,
      Snapshot \o Commit,
      Snapshot \o <<Await("bot-place")>>,
      Snapshot \o <<Await("bot-place")>> \o Commit }
    \cup { Snapshot \o <<Await("bot-place")>> \o p \o Commit : p \in PlacePaths }

\* solana_api.rs: wallet_cards (lines 40-101), wallet_claim (103-149) and
\* wallet_pack_buy (403-538) read the cache in one block
WalletReadPaths ==
    { << >>, <<Await("ledger")>>, CacheRead, <<Await("ledger")>> \o CacheRead }
\* solana_api.rs, wallet_combine, lines 151-400
WalletCombinePaths ==
    LET looked == <<Await("ledger")>> \o CacheRead
        missed == looked \o CacheRead \o <<Await("combine")>>
    IN  { << >>, <<Await("ledger")>>, looked, looked \o CacheRead,
          missed, missed \o CacheWrite,
          missed \o <<Await("generate-image")>>,
          missed \o <<Await("generate-image")>> \o CacheWrite }

\* the handlers of the routes of main.rs, lines 79-94
Handlers ==
    { "new_game", "get_game", "combine", "finalize_combine", "place", "discard",
      "end_turn", "bot_combine", "bot_place", "wallet", "wallet_combine" }
HandlerPaths(op) ==
    CASE op = "new_game"         -> NewGamePaths
      [] op = "get_game"         -> GetGamePaths
      [] op = "combine"          -> CombineErrPaths \cup CombineOkPaths
      [] op = "finalize_combine" -> FinalizePaths
      [] op = "place"            -> PlacePaths
      [] op = "discard"          -> DiscardPaths
      [] op = "end_turn"         -> EndTurnPaths
      [] op = "bot_combine"      -> BotCombinePaths
      [] op = "bot_place"        -> BotPlacePaths
      [] op = "wallet"           -> WalletReadPaths
      [] op = "wallet_combine"   -> WalletCombinePaths

\* the guards thread u holds
Guards(ths, u) == IF ths[u].pc \in {"wait", "run", "call"} THEN ths[u].holds ELSE {}
\* thread u is queued for lock l
Queued(ths, u, l) == ths[u].pc = "wait" /\ Head(ths[u].path)[2] = l
\* RwLock: a writer needs the lock free, a reader needs it free of a writer
Grantable(ths, l, mode) ==
    IF mode = "write"
    THEN \A u \in Slots : \A g \in Guards(ths, u) : g[2] # l
    ELSE \A u \in Slots : WriteLock(l) \notin Guards(ths, u)

\* thread t goes on with `rest`: it returns, or stands at its next await or
\* guard drop; a lock request takes the last place of the lock's queue
GoOn(ths, t, op, rest, holds) ==
    IF rest = << >> THEN Idle
    ELSE LET kind == Head(rest)[1] IN
         [pc |-> IF kind \in {"read", "write"} THEN "wait"
                 ELSE IF kind = "call" THEN "call" ELSE "run",
          op |-> op, path |-> rest, holds |-> holds,
          ticket |-> IF kind \in {"read", "write"}
                     THEN 1 + Cardinality({u \in Slots \ {t} :
                                              Queued(ths, u, Head(rest)[2])})
                     ELSE 0]

\* a request arrives and runs up to its first await
Accept(width) ==
    /\ CanStart(width)
    /\ left' = left - 1
    /\ \E op \in Handlers : \E path \in HandlerPaths(op) :
          threads' = [threads EXCEPT ![FreeSlot] = GoOn(threads, FreeSlot, op, path, {})]
    /\ UNCHANGED <<games, cache, out>>

\* the lock is granted to the first of its queue
Acquire(t) ==
    /\ At_pc(t, "wait")
    /\ threads[t].ticket = 1
    /\ LET th == threads[t]
           mode == Head(th.path)[1]
           l == Head(th.path)[2]
           moved == [u \in Slots |->
                        IF u # t /\ Queued(threads, u, l)
                        THEN [threads[u] EXCEPT !.ticket = @ - 1]
                        ELSE threads[u]]
       IN  /\ Grantable(threads, l, mode)
           /\ threads' = [moved EXCEPT ![t] =
                  GoOn([moved EXCEPT ![t] = Idle], t, th.op, Tail(th.path),
                       th.holds \cup {<<mode, l>>})]
    /\ UNCHANGED <<games, cache, out, left>>

\* a guard goes out of scope
Release(t) ==
    /\ At_pc(t, "run")
    /\ LET th == threads[t]
           l == Head(th.path)[2]
       IN  threads' = [threads EXCEPT ![t] =
               GoOn(threads, t, th.op, Tail(th.path),
                    {g \in th.holds : g[2] # l})]
    /\ UNCHANGED <<games, cache, out, left>>

\* the service answers, or the client of main.rs line 65 times out
Respond(t) ==
    /\ At_pc(t, "call")
    /\ LET th == threads[t]
       IN  threads' = [threads EXCEPT ![t] =
               GoOn(threads, t, th.op, Tail(th.path), th.holds)]
    /\ UNCHANGED <<games, cache, out, left>>

LockInit ==
    /\ games = EmptyMap
    /\ cache = EmptyMap
    /\ threads = [t \in Slots |-> Idle]
    /\ out = None
    /\ left = MaxRequests

LockNext ==
    \/ Accept(MaxInFlight)
    \/ \E t \in Slots : Acquire(t)
    \/ \E t \in Slots : Release(t)
    \/ \E t \in Slots : Respond(t)
LockSpec == LockInit /\ [][LockNext]_vars

\* the runtime schedules every task that can go on, and every call returns
FairLockSpec ==
    LockSpec /\ \A t \in Slots : WF_vars(Acquire(t) \/ Release(t) \/ Respond(t))

(***************************************************************************)
(* Properties.                                                             *)
(***************************************************************************)
\* thread t takes a step that starts at `pc`
Leaves(t, pc) == threads[t].pc = pc /\ threads'[t] # threads[t]
\* a client's request arrives in this step
Arrives == left' < left
Score(g, p) == g.players[p].score
Hand(g, p) == g.players[p].hand

\* C1: once the phase of a match is gameover no step of any operation
\* changes any field of the match (board, hands with their artwork paths,
\* scores, current_player, has_placed, winner, phase).
C1_FrozenAfterGameOver ==
    [][\A id \in DOMAIN games :
          games[id].phase = "gameover" => games'[id] = games[id]]_vars

\* C2: a step that brings a player's score to WIN_SCORE is the commit of a
\* placement and sets phase to gameover and winner
\* to that player; a combine, place, discard or end_turn request arriving
\* at a match that is over starts no handler work and returns an error.
C2_WinEndsMatch ==
    [][\A id \in DOMAIN games :
          /\ \A p \in Players :
                Score(games[id], p) < WIN_SCORE /\ Score(games'[id], p) >= WIN_SCORE
                => /\ games'[id].phase = "gameover"
                   /\ games'[id].winner = Some(p)
                   /\ \E t \in Slots : Leaves(t, "place_commit") \/ Leaves(t, "place_judge")
          /\ games[id].phase = "gameover" /\ Arrives
             => /\ \A t \in Slots : threads'[t] # threads[t]
                                       => threads'[t].op \notin {"combine", "place"}
                /\ out' # None /\ out'[1].op \in {"combine", "place", "discard", "end_turn"}
                   => out'[1].code >= 400]_vars

\* C2 witness: the match is over with player 0 at WIN_SCORE and a later
\* combine request has just been refused.
C2_Refused ==
    \E id \in DOMAIN games :
        /\ games[id].phase = "gameover"
        /\ games[id].winner = Some(0)
        /\ Score(games[id], 0) = WIN_SCORE
        /\ out = Err("combine", "human", 400, "Game is over")

\* C3: phase never goes back from gameover, a winner once set never
\* changes, and phase or winner change only in the commit step of a
\* placement.
C3_OneWayPhase ==
    [][\A id \in DOMAIN games :
          /\ games[id].phase = "gameover" => games'[id].phase = "gameover"
          /\ games[id].winner # None => games'[id].winner = games[id].winner
          /\ games'[id].phase # games[id].phase \/ games'[id].winner # games[id].winner
             => \E t \in Slots : Leaves(t, "place_commit") \/ Leaves(t, "place_judge")]_vars

\* C4: in every reachable state each player's score is in 0..WIN_SCORE.
C4_ScoreInRange ==
    \A id \in DOMAIN games : \A p \in Players :
        Score(games[id], p) \in 0..WIN_SCORE

\* the result and the judgment a place step of thread t hands back (to the
\* client, or to bot_place), None if it hands back an error or dies
Placed(t) ==
    IF threads[t].via = "bot"
    THEN IF threads'[t].pc = "bot_after_place"
         THEN <<threads'[t].result, threads'[t].judgment>> ELSE None
    ELSE IF out' # None /\ out'[1].code = 200
         THEN <<out'[1].result, out'[1].info>> ELSE None
\* thread t enters place in this step
EntersPlace(t) ==
    /\ threads[t].pc \notin {"place_commit", "place_judge"}
    /\ threads'[t].pc \in {"place_commit", "place_judge"}
Max(a, b) == IF a > b THEN a ELSE b

\* the case of C5: a crafted card of the current player, an empty cell
C5_Case(g, hand_index, cell) ==
    /\ g.phase = "playing"
    /\ ~g.has_placed
    /\ hand_index < Len(Hand(g, g.current_player))
    /\ At(Hand(g, g.current_player), hand_index).kind = "crafted"
    /\ g.board[cell].card = None
C5_Accepted(gs) ==
    \A id \in DOMAIN gs : \A hand_index \in HandIndexes, cell \in Cells :
        C5_Case(gs[id], hand_index, cell)
        => /\ PlaceCheck(gs[id], hand_index, cell[1], cell[2]) = "ok"
           /\ ~Contested(gs[id], cell[1], cell[2])
C5_Effect(t) ==
    LET th == threads[t]
        g == games[th.id]
        after == games'[th.id]
        p == th.player_idx
        cell == <<th.row, th.col>>
    IN  C5_Case(g, th.hand_index, cell)
        => /\ Placed(t) = <<"placed", None>>
           /\ after.board = [g.board EXCEPT ![cell].card =
                  Some([card |-> CraftedOf(At(Hand(g, p), th.hand_index)), owner |-> p])]
           /\ Len(Hand(after, p)) = Len(Hand(g, p)) - 1
           /\ \A i \in 1..Len(Hand(after, p)) :
                 Hand(after, p)[i] = Hand(g, p)[IF i <= th.hand_index THEN i ELSE i + 1]
           /\ Score(after, p) = Score(g, p) + 1
           /\ after.has_placed
           /\ after.players[Other(p)] = g.players[Other(p)]

\* C5: with requests processed one at a time, a place of a crafted card of
\* the current player on an empty cell (phase playing, has_placed false) is
\* accepted and committed without the judge being asked; the result is
\* "placed", the cell holds the card with the current player as owner,
\* exactly that card has left the hand, the player's score is one higher,
\* has_placed is true, the opponent's hand and score and the other cells
\* are as before.
C5_PlaceOnEmptyCell ==
    [][/\ C5_Accepted(games)
       /\ C5_Accepted(games')
       /\ \A t \in Slots :
            /\ EntersPlace(t)
               => LET th == threads'[t] IN
                  /\ PlaceCheck(games[th.id], th.hand_index, th.row, th.col) = "ok"
                  /\ th.player_idx = games[th.id].current_player
                  /\ th.pc = "place_judge" <=> games[th.id].board[<<th.row, th.col>>].card # None
            /\ Leaves(t, "place_commit") => C5_Effect(t)]_vars

\* C5 witness: a placement on the empty cell was committed for the client.
C5_PlacedSeen ==
    /\ out = Ok("place", "human", "placed", None)
    /\ \E id \in DOMAIN games : games[id].has_placed

\* C6: with requests processed one at a time, a client's place on a cell of
\* the opponent ends "defended" exactly when the judge names the defender
\* ("a"); then the match is exactly as before (board, hands, scores,
\* current_player, phase, has_placed) and the same place request would be
\* accepted again in the same turn.
C6_DefendedLeavesMatch ==
    [][\A t \in Slots :
          Leaves(t, "place_judge") /\ threads[t].via = "human" /\ Placed(t) # None
          => LET th == threads[t] IN
             /\ Placed(t)[1] = "defended" <=> Placed(t)[2] = Some("a")
             /\ Placed(t)[1] = "defended"
                => /\ games' = games
                   /\ ~games'[th.id].has_placed
                   /\ games'[th.id].current_player = th.player_idx
                   /\ PlaceCheck(games'[th.id], th.hand_index, th.row, th.col) = "ok"]_vars

\* C6 witness: a contest was lost and the turn is still open.
C6_DefendedSeen ==
    /\ out = Ok("place", "human", "defended", Some("a"))
    /\ \E id \in DOMAIN games : ~games[id].has_placed /\ games[id].phase = "playing"

\* C7: with requests processed one at a time, when the judge names the
\* attacker ("b") in a contest the result is "conquered": the previous
\* owner's score is one lower (not below 0), the attacker's one higher, the
\* cell holds the attacker's card with the attacker as owner, that card has
\* left the attacker's hand, has_placed is true, and phase and winner are
\* those the win condition gives on the updated scores.
C7_ConqueredTakesCell ==
    [][\A t \in Slots :
          Leaves(t, "place_judge") /\ Placed(t) # None /\ Placed(t)[2] = Some("b")
          => LET th == threads[t]
                 g == games[th.id]
                 after == games'[th.id]
                 p == th.player_idx
                 cell == <<th.row, th.col>>
                 prev == g.board[cell].card[1].owner
             IN  /\ Placed(t)[1] = "conquered"
                 /\ prev = Other(p)
                 /\ Score(after, prev) = Max(Score(g, prev) - 1, 0)
                 /\ Score(after, p) = Score(g, p) + 1
                 /\ after.board = [g.board EXCEPT ![cell].card =
                        Some([card |-> CraftedOf(At(Hand(g, p), th.hand_index)),
                              owner |-> p])]
                 /\ Len(Hand(after, p)) = Len(Hand(g, p)) - 1
                 /\ \A i \in 1..Len(Hand(after, p)) :
                       Hand(after, p)[i] =
                           Hand(g, p)[IF i <= th.hand_index THEN i ELSE i + 1]
                 /\ Hand(after, prev) = Hand(g, prev)
                 /\ after.has_placed
                 /\ after.phase = IF \E q \in Players : Score(after, q) >= WIN_SCORE
                                  THEN "gameover" ELSE "playing"
                 /\ after.winner = IF Score(after, p) >= WIN_SCORE
                                   THEN Some(p) ELSE None]_vars

\* C7 witness: a conquest was committed, the loser is down to 3, the
\* attacker has won the match with it.
C7_ConqueredSeen ==
    /\ out = Ok("place", "human", "conquered", Some("b"))
    /\ \E id \in DOMAIN games :
          /\ games[id].phase = "gameover"
          /\ \E p \in Players : Score(games[id], p) = WIN_SCORE
                                /\ Score(games[id], Other(p)) = WIN_SCORE - 2

\* C8: whatever else is in flight, an end_turn request on a match in
\* phase playing succeeds; the hand of the player whose turn ends then has
\* exactly HAND_SIZE cards, the cards it had first and in their order, base
\* cards drawn after them; current_player is the other player, has_placed
\* is false; the other hand, both scores, the board, phase and winner are
\* as before.
C8_EndTurnRefills ==
    [][Arrives /\ out' # None /\ out'[1].op = "end_turn"
       => \A id \in DOMAIN games :
            LET g == games[id]
                after == games'[id]
                p == g.current_player
                had == Len(Hand(g, p))
            IN  g.phase = "playing"
                => /\ out' = Ok("end_turn", "human", "turn", None)
                   /\ Len(Hand(after, p)) = HAND_SIZE
                   /\ had <= HAND_SIZE
                   /\ SubSeq(Hand(after, p), 1, had) = Hand(g, p)
                   /\ \A i \in (had + 1)..HAND_SIZE :
                         Hand(after, p)[i] \in {from_base(c) : c \in Range(base_cards)}
                   /\ after.current_player = Other(p)
                   /\ ~after.has_placed
                   /\ after.players[Other(p)] = g.players[Other(p)]
                   /\ Score(after, p) = Score(g, p)
                   /\ after.board = g.board
                   /\ after.phase = g.phase
                   /\ after.winner = g.winner]_vars

\* C8 witness: player 0 has ended a turn in which it had placed; its hand
\* is back at HAND_SIZE with the crafted card it kept.
C8_TurnEnded ==
    /\ out = Ok("end_turn", "human", "turn", None)
    /\ \E id \in DOMAIN games :
          /\ games[id].current_player = 1
          /\ Score(games[id], 0) > 0
          /\ Len(Hand(games[id], 0)) = HAND_SIZE
          /\ \E i \in 1..HAND_SIZE : Hand(games[id], 0)[i].kind = "crafted"

\* the orders in which n selected cards can be named
Orders(n) == {f \in [1..n -> 1..n] : \A i, j \in 1..n : f[i] = f[j] => i = j}
Reorder(seq, f) == [i \in 1..Len(seq) |-> seq[f[i]]]
\* selections of the current hand beyond those the clients of the model send
C9_Selections ==
    CombineIndexLists \cup { <<2, 3, 4>>, <<0, 3, 4>>, <<0, 2, 3, 4>>, <<4, 0, 3>> }
C9_SameKey(gs) ==
    \A id \in DOMAIN gs : \A idxs \in C9_Selections :
        LET hand == Hand(gs[id], gs[id].current_player) IN
        CombineCheck(hand, idxs) = "ok"
        => \A f \in Orders(Len(idxs)) :
             /\ CombineKey(Selected(hand, Reorder(idxs, f)))
                   = CombineKey(Selected(hand, idxs))
             /\ LET cards == Selected(hand, idxs)
                    mats == IdsOf(SelectSeq(cards, NotIntent))
                    ints == SelectSeq(cards, IsIntent)
                    intent == IF ints = << >> THEN NoIntent ELSE ints[1].id
                IN  Len(mats) = Len(idxs)
                    => compute_crafted_card_id(Reorder(mats, f), intent)
                          = compute_crafted_card_id(mats, intent)

\* C9: the id of a crafted card is the same for every order of the same
\* material ids with the same optional intent, and a combine request (its
\* snapshot still being the state: requests are processed one at a time)
\* looks up the key of its selection whatever the order of its indices.
C9_KeyIgnoresOrder ==
    /\ C9_SameKey(games)
    /\ \A t \in Slots :
         threads[t].pc = "combine_cache"
         => LET th == threads[t]
                hand == Hand(games[th.id], th.player_idx)
            IN  \A f \in Orders(Len(th.card_indices)) :
                  th.key = CombineKey(Selected(hand, Reorder(th.card_indices, f)))

\* C9 witness: a combine of the cards 3 and 2, which differ in id, is
\* looking up the key of the selection 2, 3.
C9_ReversedSelection ==
    \E t \in Slots :
        /\ threads[t].pc = "combine_cache"
        /\ threads[t].card_indices = <<3, 2>>
        /\ LET hand == Hand(games[threads[t].id], threads[t].player_idx) IN
           /\ Len(hand) > 3
           /\ At(hand, 2).id # At(hand, 3).id
           /\ threads[t].key = CombineKey(Selected(hand, <<2, 3>>))

Impossible(c, k) == k \in DOMAIN c /\ c[k].impossible

\* C10: a combine the Oracle refuses ("not possible" in the name, in any
\* letter case) leaves an impossible entry under its key in the cache; the
\* entry stays; and a combine that finds it fails with "Combination not
\* possible" (422) without asking the Oracle and without changing the match.
C10_ImpossibleStays ==
    [][/\ \A name \in OracleNames :
            IsNotPossible(name) <=> name \in {"NOT POSSIBLE.", "Not possible"}
       /\ \A t \in Slots :
            /\ Leaves(t, "combine_oracle") /\ threads[t].via = "human"
               /\ out' = Err("combine", "human", 422, "Combination not possible")
               => Impossible(cache', threads[t].key)
            /\ Leaves(t, "combine_cache") /\ Impossible(cache, threads[t].key)
               => /\ games' = games
                  /\ threads'[t].pc # "combine_oracle"
                  /\ threads[t].via = "human"
                     => out' = Err("combine", "human", 422, "Combination not possible")
       /\ \A k \in DOMAIN cache : Impossible(cache, k) => Impossible(cache', k)]_vars

Last(seq) == seq[Len(seq)]
Resolvable(c, k) == k \in DOMAIN c /\ ~c[k].impossible

\* C11: a combine that finds a resolvable entry under its key asks neither
\* the Oracle nor the Renderer (the handler is done in that step); the card
\* appended to the hand and the response carry the entry's name and
\* description; the entry keeps its name, description and artwork path.
C11_WarmCacheHit ==
    [][\A t \in Slots :
          Leaves(t, "combine_cache") /\ Resolvable(cache, threads[t].key)
          => LET th == threads[t]
                 e == cache[th.key]
                 hand == Hand(games'[th.id], th.player_idx)
             IN  /\ threads'[t] = Idle
                 /\ out' # None /\ out'[1].op = "combine" /\ out'[1].code = 200
                 /\ out'[1].info[1].name = e.name
                 /\ out'[1].info[1].description = e.description
                 /\ hand # << >>
                 /\ Last(hand).kind = "crafted"
                 /\ Last(hand).name = e.name
                 /\ Last(hand).description = e.description
                 /\ Resolvable(cache', th.key)
                 /\ cache'[th.key].name = e.name
                 /\ cache'[th.key].description = e.description
                 /\ cache'[th.key].image_path = e.image_path]_vars

\* C11 witness: a combine has just been served from the cache (is_new
\* false) and the crafted card is the last card of a hand.
C11_ServedFromCache ==
    /\ out # None /\ out[1].op = "combine" /\ out[1].code = 200
    /\ ~out[1].info[1].is_new
    /\ \E id \in DOMAIN games : \E p \in Players :
          /\ Hand(games[id], p) # << >>
          /\ Last(Hand(games[id], p)).name = out[1].info[1].name
          /\ Last(Hand(games[id], p)).id \in DOMAIN cache

\* the combination id a combine handler works on (line 390: the entry it
\* built after a miss carries the key as its id)
KeyOf(th) == IF "key" \in DOMAIN th THEN th.key ELSE th.cached.id

\* a combine of thread t that missed the cache commits in this step
MissCommits(t) ==
    /\ Leaves(t, "combine_oracle") \/ Leaves(t, "combine_commit")
    /\ out' # None /\ out'[1].op = "combine" /\ out'[1].code = 200

\* C12: when a combine that missed the cache commits (deferred image or
\* not), the cache holds a resolvable, discovered entry under its key with
\* the name and description just returned; and a combine that finds such an
\* entry is done in that step, without the Oracle, returning is_new false
\* and the entry's name and description.
C12_RepeatIsWarm ==
    [][\A t \in Slots :
          /\ MissCommits(t)
             => LET k == KeyOf(threads[t]) IN
                /\ Resolvable(cache', k)
                /\ cache'[k].discovered
                /\ cache'[k].name = out'[1].info[1].name
                /\ cache'[k].description = out'[1].info[1].description
          /\ Leaves(t, "combine_cache") /\ Resolvable(cache, threads[t].key)
             /\ cache[threads[t].key].discovered
             => /\ threads'[t] = Idle
                /\ out' # None /\ out'[1].code = 200
                /\ ~out'[1].info[1].is_new
                /\ out'[1].info[1].name = cache[threads[t].key].name
                /\ out'[1].info[1].description = cache[threads[t].key].description]_vars

\* C12 witness: a combine that missed the cache has committed with its
\* image deferred and the cache has no entry under the key it returned.
C12_DeferredLeftCold ==
    /\ out # None /\ out[1].op = "combine" /\ out[1].code = 200
    /\ "cache_key" \in DOMAIN out[1].info[1]
    /\ out[1].info[1].cache_key \notin DOMAIN cache

\* the selection rules of the specification, stated on the hand
ValidSelection(hand, idxs) ==
    /\ Len(idxs) \in 2..4
    /\ \A i \in 1..Len(idxs) : idxs[i] < Len(hand)
    /\ Cardinality({i \in 1..Len(idxs) :
                       At(hand, idxs[i]).kind \in {"material", "crafted"}}) >= 1
    /\ Cardinality({i \in 1..Len(idxs) : At(hand, idxs[i]).kind = "intent"}) <= 1
ValidationErrors ==
    {"Select 2-4 cards to combine", "Invalid card index",
     "Need at least 1 material card", "At most 1 intent allowed"}

\* C13: a combine gets past its validation (to the cache check, and from
\* there to the Oracle) only with a selection of 2 to 4 indices inside the
\* current player's hand, at least one material-like card and at most one
\* intent; a request refused with a validation error changes neither the
\* match nor the cache and leaves no handler running.
C13_InvalidSelectionRefused ==
    [][/\ \A t \in Slots :
            threads[t].pc # "combine_cache" /\ threads'[t].pc = "combine_cache"
            => LET g == games[threads'[t].id] IN
               /\ ValidSelection(Hand(g, g.current_player), threads'[t].card_indices)
               /\ UNCHANGED <<games, cache>>
       /\ \A t \in Slots :
            threads'[t].pc \in {"combine_oracle", "combine_image", "combine_commit"}
            => threads[t].pc \in {"combine_cache", "combine_oracle", "combine_image",
                                  "combine_commit"}
       /\ out' # None /\ out'[1].op = "combine" /\ out'[1].via = "human"
          /\ out'[1].result \in ValidationErrors
          => /\ Arrives
             /\ out'[1].code = 400
             /\ UNCHANGED <<games, cache, threads>>]_vars

\* C13 witness: a combine that selected the same intent twice next to a
\* material has just been refused.
C13_TwoIntentsRefused ==
    /\ out = Err("combine", "human", 400, "At most 1 intent allowed")
    /\ \E id \in DOMAIN games :
          LET hand == Hand(games[id], games[id].current_player)
          IN  Len(hand) > 1 /\ hand[1].kind = "intent" /\ hand[2].kind = "material"

\* the combine of thread t commits in this step: from a cache hit, after a
\* deferred miss or after a synchronous miss
CombineCommits(t) ==
    /\ threads[t].pc \in {"combine_cache", "combine_oracle", "combine_commit"}
    /\ threads'[t] # threads[t]
    /\ out' # None /\ out'[1].op = "combine" /\ out'[1].code = 200
IntentsIn(hand) == SelectSeq(hand, IsIntent)

\* C14: a combine commit consumes no intent card: the intent cards of the
\* acting player's hand are the same, in the same order, after the commit.
C14_IntentKept ==
    [][\A t \in Slots :
          CombineCommits(t)
          => IntentsIn(Hand(games'[threads[t].id], threads[t].player_idx))
               = IntentsIn(Hand(games[threads[t].id], threads[t].player_idx))]_vars

\* C14 witness: a combine of one material with the intent has committed
\* and the acting player, who is still to move, holds no intent card.
C14_IntentGone ==
    /\ out # None /\ out[1].op = "combine" /\ out[1].code = 200
    /\ \E id \in DOMAIN games :
          LET hand == Hand(games[id], games[id].current_player)
          IN  /\ Len(hand) = HAND_SIZE - 1
              /\ IntentsIn(hand) = << >>
              /\ Last(hand).kind = "crafted"
              /\ Last(hand).id = compute_crafted_card_id(<<base_cards[1].id>>,
                                                         base_cards[2].id)
              /\ games[id].board = [c \in Cells |-> [category |-> games[id].board[c].category,
                                                    card |-> None]]

Distinct(idxs) == \A i, j \in 1..Len(idxs) : idxs[i] = idxs[j] => i = j
RECURSIVE UnselectedFrom(_, _, _)
\* the cards of `hand` from position i on whose index is not in idxs
UnselectedFrom(hand, idxs, i) ==
    IF i > Len(hand) THEN << >>
    ELSE (IF (i - 1) \in Range(idxs) THEN << >> ELSE <<hand[i]>>)
         \o UnselectedFrom(hand, idxs, i + 1)

\* C15: a combine commit (cache hit, synchronous miss or deferred miss) on
\* a valid selection of k distinct indices of a hand of n cards leaves the
\* hand with n - k + 1 cards: the unselected cards in their order, then one
\* crafted card whose id is the crafted id of the selection.
C15_HandAfterCombine ==
    [][\A t \in Slots :
          LET th == threads[t] IN
          CombineCommits(t)
          /\ Distinct(th.card_indices)
          /\ ValidSelection(Hand(games[th.id], th.player_idx), th.card_indices)
          => LET hand == Hand(games[th.id], th.player_idx)
                 after == Hand(games'[th.id], th.player_idx)
             IN  /\ Len(after) = Len(hand) - Len(th.card_indices) + 1
                 /\ SubSeq(after, 1, Len(after) - 1)
                      = UnselectedFrom(hand, th.card_indices, 1)
                 /\ Last(after).kind = "crafted"
                 /\ Last(after).id = CombineKey(Selected(hand, th.card_indices))]_vars

\* C15 witness: a combine of the cards at indices 3 and 2 (a crafted card
\* and a material) has committed: the hand is two materials, the pending
\* crafted card that was fifth, and the new crafted card.
C15_MiddleCardsCombined ==
    /\ out # None /\ out[1].op = "combine" /\ out[1].code = 200
    /\ \E id \in DOMAIN games :
          LET hand == Hand(games[id], 0)
          IN  /\ Len(hand) = 4
              /\ hand[1] = Water /\ hand[2] = Water
              /\ hand[3].kind = "crafted" /\ hand[3].image_path = << >>
              /\ hand[4].kind = "crafted"
              /\ hand[4].id = compute_crafted_card_id(<<hand[1].id, MatchPoint.players[0].hand[4].id>>,
                                                      NoIntent)

\* the preconditions of a placement, stated on the match
MayPlace(g, hand_index, row, col) ==
    LET p == g.current_player IN
    /\ g.phase = "playing"
    /\ ~g.has_placed
    /\ row <= 2 /\ col <= 2
    /\ hand_index < Len(Hand(g, p))
    /\ At(Hand(g, p), hand_index).kind \notin {"material", "intent"}
    /\ ~(g.board[<<row, col>>].card # None /\ g.board[<<row, col>>].card[1].owner = p)
PlaceRefusals ==
    {"Already placed a card this turn", "Invalid board position", "Invalid card index",
     "Only crafted cards can be placed", "You already own this cell"}

\* C16: a placement gets past its validation (to the judge or to the
\* commit) only if has_placed is false, row and col are at most 2, the hand
\* index is inside the current player's hand, the card there is crafted and
\* the cell is not the acting player's own; the step changes no match.  A
\* request refused for one of these reasons returns 400 in the step it
\* arrives, without a judge call, and changes neither the matches nor the
\* cache.
C16_PlaceRefused ==
    [][/\ \A t \in Slots :
            EntersPlace(t)
            => LET th == threads'[t] IN
               /\ MayPlace(games[th.id], th.hand_index, th.row, th.col)
               /\ th.player_idx = games[th.id].current_player
               /\ UNCHANGED <<games, cache>>
       /\ out' # None /\ out'[1].op = "place" /\ out'[1].via = "human"
          /\ out'[1].result \in PlaceRefusals
          => /\ Arrives
             /\ out'[1].code = 400
             /\ UNCHANGED <<games, cache, threads>>]_vars

\* C16 witness: the player to move, who has not placed yet and holds a
\* crafted card, has just been refused a placement on a cell it owns.
C16_OwnCellRefused ==
    /\ out = Err("place", "human", 400, "You already own this cell")
    /\ threads = [t \in Slots |-> Idle]
    /\ \E id \in DOMAIN games :
          LET g == games[id] IN
          /\ ~g.has_placed /\ g.phase = "playing"
          /\ HasCrafted(Hand(g, g.current_player))
          /\ \E c \in Cells : g.board[c].card # None
                              /\ g.board[c].card[1].owner = g.current_player

\* C17: no step changes the category of a board cell of an existing match,
\* and a match is created with the nine chosen categories in row-major
\* order.
C17_CategoriesFixed ==
    [][/\ \A id \in DOMAIN games : \A c \in Cells :
            /\ id \in DOMAIN games'
            /\ games'[id].board[c].category = games[id].board[c].category
       /\ \A id \in DOMAIN games' \ DOMAIN games :
            \E chosen \in Shuffles : \A c \in Cells :
                games'[id].board[c].category = chosen[CellNo(c) + 1]]_vars

\* C17 witness: player 0 has just conquered the cell (0, 1), which still
\* carries the second category.
C17_ConqueredCellLabelled ==
    /\ out # None /\ out[1].op = "place" /\ out[1].result = "conquered"
    /\ \E id \in DOMAIN games :
          /\ games[id].board[<<0, 1>>].card # None
          /\ games[id].board[<<0, 1>>].card[1].owner = 0
          /\ games[id].board[<<0, 1>>].category = categories[2]

Human(t) == threads[t].via = "human"

\* every failure the Oracle or the Renderer can answer a human-path handler
\* with, where it waits for them, is answered to the client with its error
UpstreamAnswered ==
    \A t \in Slots :
        /\ At_pc(t, "combine_oracle") /\ Human(t)
           => \A f \in OracleFailures :
                ENABLED (CombineOracle(t)
                         /\ out' = Err("combine", "human", 502, OracleError(f)))
        /\ At_pc(t, "combine_image") /\ Human(t)
           => \A o \in ImageOutcomes \ {"ok"} :
                ENABLED (CombineImage(t)
                         /\ out' = Err("combine", "human", ImageCode(o), ImageError(o)))
        /\ At_pc(t, "place_judge") /\ Human(t)
           => \A f \in OracleFailures :
                ENABLED (PlaceJudge(t)
                         /\ out' = Err("place", "human", 502, JudgeError(f)))

\* a step of thread t that ends with an upstream error
UpstreamFails(t) ==
    /\ Leaves(t, "combine_oracle") \/ Leaves(t, "combine_image") \/ Leaves(t, "place_judge")
    /\ out' # None /\ out'[1].code >= 500

BotCombineReturns(t) ==
    /\ Leaves(t, "bot_combine_oracle") \/ (Leaves(t, "bot_skip") /\ threads[t].op = "bot_combine")
    /\ out' # None /\ out'[1].op = "bot_combine"
\* the bot's turn has been ended in match g
TurnHandedOver(g) ==
    /\ g.current_player = 0
    /\ ~g.has_placed
    /\ Len(Hand(g, 1)) = HAND_SIZE

\* C19: bot_combine, once past its checks, propagates no error: whenever
\* the Oracle's /bot-combine call fails (transport, status, unparseable
\* body) or the combine it re-enters is rejected or fails, it answers 200
\* after ending the bot's turn (hand back at HAND_SIZE, player 0 to move,
\* has_placed false).
C19_BotCombineAbsorbs ==
    [][\A t \in Slots :
          BotCombineReturns(t)
          => /\ out'[1].code = 200
             /\ out'[1].result = "bot_failed"
             /\ TurnHandedOver(games'[threads[t].id])]_vars

\* C19 witness: bot_combine has just answered 502 and it is still the
\* bot's turn in a match that is not over.
C19_BotErrorPropagated ==
    /\ out = Err("bot_combine", "bot", 502, "Bot combine error")
    /\ \E id \in DOMAIN games :
          /\ games[id].mode = "bot" /\ games[id].phase = "playing"
          /\ games[id].current_player = 1

\* bot_place of thread t returns in this step, after the placement it
\* re-entered returned Ok (bot_after_place) or Err (bot_skip)
BotPlaceReturns(t) ==
    /\ Leaves(t, "bot_after_place") \/ (Leaves(t, "bot_skip") /\ threads[t].op = "bot_place")
    /\ out' # None /\ out'[1].op = "bot_place"

\* C20 as stated: whatever the outcome of the placement bot_place
\* re-entered, when bot_place returns the bot's turn has been advanced
\* (player 0 to move, has_placed false, the bot's hand at HAND_SIZE).
C20_BotPlaceAlwaysAdvances ==
    [][\A t \in Slots :
          BotPlaceReturns(t)
          => /\ out'[1].code = 200
             /\ TurnHandedOver(games'[threads[t].id])]_vars

\* C20: when bot_place returns after the placement it re-entered, it
\* answers 200; if the match is not over the bot's turn has been advanced
\* (player 0 to move, has_placed false, the bot's hand at HAND_SIZE),
\* whether the placement was placed, conquered, defended or rejected; if
\* the placement ended the match, the match is left as the placement
\* committed it and the turn is not advanced.
C20_BotPlaceAdvancesUnlessOver ==
    [][\A t \in Slots :
          BotPlaceReturns(t)
          => LET g == games[threads[t].id]
                 after == games'[threads[t].id]
             IN  /\ out'[1].code = 200
                 /\ out'[1].result \in {"placed", "conquered", "defended",
                                        "bot_skipped_place"}
                 /\ g.phase = "playing" => TurnHandedOver(after) /\ after.phase = "playing"
                 /\ g.phase = "gameover"
                    => /\ after = g
                       /\ out'[1].result \in {"placed", "conquered"}
                       /\ g.winner = Some(1)]_vars

\* C20 witness: bot_place has returned a lost contest ("defended") and the
\* turn is with player 0, the bot's hand back at HAND_SIZE.
C20_DefendedThenAdvanced ==
    /\ out # None /\ out[1].op = "bot_place" /\ out[1].result = "defended"
    /\ \E id \in DOMAIN games :
          /\ TurnHandedOver(games[id])
          /\ games[id].phase = "playing"

\* bot_place of thread t returns in this step without entering place: on
\* the Oracle's answer (a failure or skip), or with no crafted card to place
BotPlaceGivesUp(t) ==
    /\ \/ Leaves(t, "bot_place_oracle")
       \/ /\ Leaves(t, "bot_skip")
          /\ threads[t].op = "bot_place"
          /\ ~HasCrafted(Hand(games[threads[t].id], 1))
    /\ out' # None /\ out'[1].op = "bot_place"

\* C21: when bot_place on a valid bot turn finds no crafted card in the
\* bot's hand, or its Oracle request fails (transport error, non-success
\* status, unparseable body) or answers skip, it returns no error and the
\* turn is ended without placing: board and both scores unchanged, player 0
\* to move.
C21_BotPlaceGivesTurn ==
    [][\A t \in Slots :
          BotPlaceGivesUp(t)
          => LET g == games[threads[t].id]
                 after == games'[threads[t].id]
             IN  /\ out'[1].code = 200
                 /\ after.board = g.board
                 /\ \A p \in Players : Score(after, p) = Score(g, p)
                 /\ after.current_player = 0]_vars

\* C21 witness: bot_place has answered 502 and it is still the bot's turn.
C21_BotPlaceErrorPropagated ==
    /\ out # None /\ out[1].op = "bot_place" /\ out[1].code = 502
    /\ "g1" \in DOMAIN games
    /\ games["g1"].phase = "playing"
    /\ games["g1"].current_player = 1

\* C22: the commits trust the snapshot.  A placement past its validation is
\* committed when its hand index is still inside the hand, whatever
\* has_placed is by then (the player's score goes up by one); a combine
\* past its validation is committed with the key of its snapshot, whatever
\* the hand holds at its indices by then (those positions leave the hand,
\* the crafted card of that key is appended).  Hence two requests that
\* validated against the same snapshot both commit.
C22_CommitsTrustSnapshot ==
    [][\A t \in Slots :
          LET th == threads[t]
              g == games[th.id]
              after == games'[th.id]
              p == th.player_idx
          IN  /\ Leaves(t, "place_commit") /\ th.hand_index < Len(Hand(g, p))
                 => /\ Placed(t) # None
                    /\ Score(after, p) = Score(g, p) + 1
                    /\ after.has_placed
              /\ \/ Leaves(t, "combine_commit")
                 \/ Leaves(t, "combine_cache") /\ Resolvable(cache, th.key)
                 => /\ out' # None /\ out'[1].code = 200
                    /\ Len(Hand(after, p)) > 0
                    /\ Last(Hand(after, p)).id = KeyOf(th)
                    /\ Hand(after, p) =
                          RemoveUsed(Hand(g, p), th.card_indices)
                          \o <<Last(Hand(after, p))>>
              /\ CombineCommits(t)
                 => /\ Last(Hand(after, p)).id = KeyOf(th)
                    /\ Hand(after, p) =
                          RemoveUsed(Hand(g, p), th.card_indices)
                          \o <<Last(Hand(after, p))>>]_vars

\* C22 witness: two combine requests that selected hand cards 2 and 3 of
\* the same snapshot (a Water and the only Steam) have both committed, and
\* the two cards they made were both placed in the same turn by two place
\* requests: two points gained in one turn, has_placed set, three Waters
\* left of the hand of HAND_SIZE.
C22_SpentAndPlacedTwice ==
    /\ "g1" \in DOMAIN games
    /\ left = MaxRequests - 3
    /\ \A t \in Slots : threads[t] = Idle
    /\ LET g == games["g1"] IN
       /\ g.current_player = 0
       /\ g.has_placed
       /\ Score(g, 0) = Score(EarlyMatch, 0) + 2
       /\ Hand(g, 0) = AllWater(HAND_SIZE - 4)
       /\ g.board[<<0, 2>>].card # None
       /\ g.board[<<0, 2>>].card[1].owner = 0
       /\ g.board[<<0, 2>>].card[1].card.id =
             CombineKey(Selected(Hand(EarlyMatch, 0), <<2, 3>>))

\* C23: in every reachable state a successful finalize_combine on a match,
\* repeated with the same cache key, name and description, changes nothing
\* the first call has not changed already (hand of the current player and
\* cache); the first call keeps every hand card in place and changes at
\* most the image_path of pending cards (id = cache key, empty path).
C23_FinalizeIdempotent ==
    \A id \in DOMAIN games :
       \A key \in FinalizeKeys(id), name \in FinalizeNames,
          description \in OracleDescriptions :
          LET hand == Hand(games[id], games[id].current_player)
              path == ServePath(name, key)
              once == FillPending(hand, key, path)
              twice == FillPending(once, key, path)
              entry == FinalizedEntry(key, name, description)
          IN  /\ twice = once
              /\ MapInsert(MapInsert(cache, key, entry), key, entry)
                 = MapInsert(cache, key, entry)
              /\ Len(once) = Len(hand)
              /\ \A i \in 1..Len(hand) :
                    \/ once[i] = hand[i]
                    \/ /\ Pending(hand[i], key)
                       /\ once[i] = [hand[i] EXCEPT !.image_path = path]

\* C23 witness: finalize_combine has just succeeded and filled one pending
\* card, and the same hand holds another pending card of the same key, which
\* the same call made again would fill.
C23_SecondPendingLeft ==
    /\ out = Ok("finalize_combine", "human", "finalized", None)
    /\ \E id \in DOMAIN games :
          LET hand == Hand(games[id], games[id].current_player) IN
          \E i, j \in 1..Len(hand) :
             /\ i < j
             /\ hand[i].id = hand[j].id
             /\ hand[i].kind = "crafted" /\ hand[j].kind = "crafted"
             /\ hand[i].image_path # << >>
             /\ Pending(hand[j], hand[i].id)

\* the case of C24: a match not over, 1 to 3 indices, all inside the hand
\* of the current player
C24_Case(g, idxs) ==
    /\ g.phase = "playing"
    /\ Len(idxs) >= 1 /\ Len(idxs) <= 3
    /\ \A i \in 1..Len(idxs) : idxs[i] < Len(Hand(g, g.current_player))
C24_Checked(gs) ==
    \A id \in DOMAIN gs : \A idxs \in DiscardIndexLists :
        LET g == gs[id]
            hand == Hand(g, g.current_player)
        IN  g.phase = "playing"
            => IF C24_Case(g, idxs)
               THEN /\ DiscardCheck(g, idxs) = "ok"
                    /\ DiscardFrom(hand, idxs) = UnselectedFrom(hand, idxs, 1)
                    /\ Len(DiscardFrom(hand, idxs))
                       = Len(hand) - Cardinality(Range(idxs))
               ELSE DiscardCheck(g, idxs) \in {"Discard 1-3 cards", "Invalid card index"}

\* C24: on a match that is not over, discard with 1 to 3 indices inside the
\* current player's hand is accepted, has_placed set or not, and removes
\* exactly the cards at the distinct listed positions, the others keeping
\* their order; scores, board, current_player, has_placed, phase and the
\* other hand are unchanged.  An empty list, more than 3 indices or an
\* index outside the hand is refused and the match is unchanged.
C24_DiscardRemovesListed ==
    [][/\ C24_Checked(games)
       /\ out' # None /\ out'[1].op = "discard" /\ out'[1].code # 404
          => \E id \in DOMAIN games :
                LET g == games[id]
                    hand == Hand(g, g.current_player)
                IN  IF out'[1].code = 200
                    THEN \E idxs \in DiscardIndexLists :
                            /\ C24_Case(g, idxs)
                            /\ games' = [games EXCEPT
                                  ![id].players[g.current_player].hand =
                                      UnselectedFrom(hand, idxs, 1)]
                    ELSE /\ games' = games
                         /\ \/ g.phase = "gameover"
                            \/ \E idxs \in DiscardIndexLists : ~C24_Case(g, idxs)]_vars

\* C24 witness: after a placement in the same turn (has_placed set) a
\* discard was accepted; the hand is three cards short of HAND_SIZE.
C24_DiscardedAfterPlacing ==
    /\ out = Ok("discard", "human", "discarded", None)
    /\ \E id \in DOMAIN games :
          /\ games[id].has_placed
          /\ games[id].phase = "playing"
          /\ Len(Hand(games[id], games[id].current_player)) = HAND_SIZE - 3

\* `card` is a card of the base pool (whatever nft_mint it carries)
BaseDrawn(card) ==
    \E b \in Range(base_cards) :
        /\ card.name = b.name /\ card.kind = b.kind /\ card.id = b.id
        /\ card.description = b.description /\ card.image_path = b.image_path
\* what new_game sets apart from the hands
FreshMatch(g) ==
    /\ g.phase = "playing"
    /\ g.current_player = 0
    /\ ~g.has_placed
    /\ g.winner = None
    /\ \A p \in Players : Score(g, p) = 0
    /\ DOMAIN g.board = Cells
    /\ \A c \in Cells : g.board[c].card = None /\ g.board[c].category \in Range(categories)
    /\ \A c, d \in Cells : g.board[c].category = g.board[d].category => c = d
    /\ \A p \in Players : Len(Hand(g, p)) = HAND_SIZE
\* new_game has created match id in this step
Created(id) == id \notin DOMAIN games /\ id \in DOMAIN games'

\* C25 as stated: a newly created match is fresh (phase playing, player 0
\* to move, has_placed false, no winner, scores 0, nine empty cells with
\* pairwise distinct categories of the pool) and both hands are HAND_SIZE
\* cards of the base pool.
C25_NewMatchFromBasePool ==
    [][\A id \in GameIds :
          Created(id)
          => /\ FreshMatch(games'[id])
             /\ \A p \in Players : \A i \in 1..HAND_SIZE :
                   BaseDrawn(Hand(games'[id], p)[i])]_vars

\* C25: a newly created match is fresh (phase playing, player 0 to move,
\* has_placed false, no winner, scores 0, nine empty cells with pairwise
\* distinct categories of the pool, two hands of HAND_SIZE cards); player
\* 1's hand is of the base pool, and so is player 0's except for its first
\* cards, at most 4, which are the NFT cards selected in the request: base
\* cards or crafted cards of the craft cache, carrying their mint.
C25_NewMatchFresh ==
    [][\A id \in GameIds :
          Created(id)
          => LET g == games'[id] IN
             /\ FreshMatch(g)
             /\ out' = Ok("new_game", "human", "created", None)
             /\ \A i \in 1..HAND_SIZE :
                   /\ BaseDrawn(Hand(g, 1)[i])
                   /\ "nft_mint" \notin DOMAIN Hand(g, 1)[i]
                   /\ \/ /\ BaseDrawn(Hand(g, 0)[i])
                         /\ "nft_mint" \notin DOMAIN Hand(g, 0)[i]
                      \/ /\ i <= 4
                         /\ "nft_mint" \in DOMAIN Hand(g, 0)[i]
                         /\ \A j \in 1..i : "nft_mint" \in DOMAIN Hand(g, 0)[j]
                         /\ \/ BaseDrawn(Hand(g, 0)[i])
                            \/ /\ Hand(g, 0)[i].kind = "crafted"
                               /\ Hand(g, 0)[i].id \in DOMAIN cache
                               /\ Hand(g, 0)[i].name = cache[Hand(g, 0)[i].id].name]_vars

\* C25 witness: a match was just created whose player 0 starts with a
\* crafted card of the craft cache in its hand, selected as an NFT card.
C25_StartsWithCraftedCard ==
    /\ out = Ok("new_game", "human", "created", None)
    /\ \E id \in DOMAIN games :
          /\ FreshMatch(games[id])
          /\ \E i \in 1..HAND_SIZE : Hand(games[id], 0)[i].kind = "crafted"

\* a request other than new_game arrives while the store holds no match:
\* whatever id it names is unknown
UnknownMatchAddressed ==
    /\ Arrives
    /\ games = EmptyMap
    /\ ~(out' # None /\ out'[1].op = "new_game")
    /\ games' = EmptyMap

\* C26: a request addressed to a match id that is not in the store
\* (get_game, combine, finalize_combine, place, discard, end_turn,
\* bot_combine, bot_place) is answered 404 at once: no handler is left in
\* flight to call the Oracle or the Renderer, no match and no cache entry
\* changes.
C26_UnknownMatchRefused ==
    [][UnknownMatchAddressed
       => /\ out' # None
          /\ out'[1].code = 404
          /\ out'[1].result = "Game not found"
          /\ threads' = threads
          /\ cache' = cache]_vars

\* C26 witness: finalize_combine has answered 404 for an unknown match
\* after storing a cache entry under the key of the request.
C26_FinalizeWroteCache ==
    /\ out = Err("finalize_combine", "human", 404, "Game not found")
    /\ games = EmptyMap
    /\ \E key \in DOMAIN cache : cache \notin InitCaches /\ cache[key].discovered

\* C27: with requests processed one at a time, in every reachable state of
\* every match: phase is gameover exactly when a winner is set, the winner
\* is a player whose score is at least WIN_SCORE, and while the phase is
\* playing both scores are below WIN_SCORE.
C27_WinnerIffOver ==
    \A id \in DOMAIN games :
       LET g == games[id] IN
       /\ g.phase = "gameover" <=> g.winner # None
       /\ g.winner # None
          => /\ g.winner[1] \in Players
             /\ Score(g, g.winner[1]) >= WIN_SCORE
       /\ g.phase = "playing" => \A p \in Players : Score(g, p) < WIN_SCORE

\* C27 witness: a placement has ended the match: the winner stands at
\* WIN_SCORE, the phase is gameover.
C27_MatchWon ==
    /\ out # None /\ out[1].op = "place" /\ out[1].code = 200
    /\ \E id \in DOMAIN games :
          /\ games[id].phase = "gameover"
          /\ games[id].winner = Some(0)
          /\ Score(games[id], 0) = WIN_SCORE

\* a placement of thread t is committed in this step (placed or conquered)
Commits(t) ==
    /\ Leaves(t, "place_commit") \/ Leaves(t, "place_judge")
    /\ Placed(t) # None
    /\ Placed(t)[1] \in {"placed", "conquered"}

\* C28: with requests processed one at a time, has_placed is set by the
\* commit of a placement (placed or conquered) and by nothing else, and is
\* cleared by the turn handoff and by nothing else; a placement is committed
\* only while has_placed is false, and while it is true no place request
\* gets past its validation.  So at most one placement is committed between
\* two turn handoffs.
C28_OnePlacementPerTurn ==
    [][\A id \in DOMAIN games :
          LET g == games[id]
              after == games'[id]
          IN  /\ after.current_player # g.current_player => ~after.has_placed
              /\ after.has_placed /\ ~g.has_placed
                 => /\ \E t \in Slots : Commits(t)
                    /\ after.current_player = g.current_player
              /\ ~after.has_placed /\ g.has_placed
                 => after.current_player # g.current_player
              /\ \A t \in Slots :
                    /\ Commits(t) => ~g.has_placed /\ after.has_placed
                    /\ EntersPlace(t) => ~g.has_placed
              /\ g.has_placed
                 => \A hand_index \in HandIndexes, cell \in PlaceTargets(id) :
                       PlaceCheck(g, hand_index, cell[1], cell[2])
                       \in {"Game is over", "Already placed a card this turn"}]_vars

\* C28 witness: in a turn in which a placement was committed a further
\* place request has just been refused.
C28_SecondPlaceRefused ==
    /\ out = Err("place", "human", 400, "Already placed a card this turn")
    /\ \E id \in DOMAIN games :
          /\ games[id].has_placed
          /\ games[id].phase = "playing"
          /\ Score(games[id], games[id].current_player) >= 1

\* the selections of C29, in the hand of the current player
IntentAlone(hand, idxs) ==
    /\ Len(idxs) = 1
    /\ idxs[1] < Len(hand)
    /\ At(hand, idxs[1]).kind = "intent"
NoMaterial(hand, idxs) ==
    /\ Len(idxs) \in 2..4
    /\ \A i \in 1..Len(idxs) : idxs[i] < Len(hand) /\ At(hand, idxs[i]).kind = "intent"
TwoIntentsOneMaterial(hand, idxs) ==
    /\ Len(idxs) = 3
    /\ \A i \in 1..Len(idxs) : idxs[i] < Len(hand)
    /\ Cardinality({i \in 1..3 : At(hand, idxs[i]).kind = "intent"}) = 2
    /\ Cardinality({i \in 1..3 : At(hand, idxs[i]).kind = "material"}) = 1
\* a combine request is refused by its validation in this step
RefusedCombine ==
    /\ out' # None /\ out'[1].op = "combine" /\ out'[1].via = "human"
    /\ out'[1].result \in ValidationErrors

\* C29 as stated: an intent card selected alone is refused with "Need at
\* least 1 material card", two intents with one material with "At most 1
\* intent allowed", and a refused combine leaves the match unchanged.
C29_IntentAloneNeedsMaterial ==
    [][/\ \A id \in DOMAIN games : \A idxs \in CombineIndexLists :
             LET hand == Hand(games[id], games[id].current_player) IN
             /\ IntentAlone(hand, idxs)
                => CombineCheck(hand, idxs) = "Need at least 1 material card"
             /\ TwoIntentsOneMaterial(hand, idxs)
                => CombineCheck(hand, idxs) = "At most 1 intent allowed"
       /\ RefusedCombine => out'[1].code = 400 /\ games' = games]_vars

\* C29: an intent card selected alone is refused with "Select 2-4 cards to
\* combine" (the number of cards is checked first); 2 to 4 selected cards
\* with no material-like card among them are refused with "Need at least 1
\* material card"; two intents with one material are refused with "At most
\* 1 intent allowed"; a refused combine leaves the match unchanged.
C29_IntentAloneTooFew ==
    [][/\ \A id \in DOMAIN games : \A idxs \in CombineIndexLists :
             LET hand == Hand(games[id], games[id].current_player) IN
             /\ IntentAlone(hand, idxs)
                => CombineCheck(hand, idxs) = "Select 2-4 cards to combine"
             /\ NoMaterial(hand, idxs)
                => CombineCheck(hand, idxs) = "Need at least 1 material card"
             /\ TwoIntentsOneMaterial(hand, idxs)
                => CombineCheck(hand, idxs) = "At most 1 intent allowed"
       /\ RefusedCombine => out'[1].code = 400 /\ games' = games]_vars

\* C29 witness: the current player's first card is an intent and a combine
\* has just been refused for the number of cards it selected.
C29_TooFewRefused ==
    /\ out = Err("combine", "human", 400, "Select 2-4 cards to combine")
    /\ \E id \in DOMAIN games :
          LET hand == Hand(games[id], games[id].current_player)
          IN  /\ games[id].phase = "playing"
              /\ Len(hand) > 1 /\ hand[1].kind = "intent"

\* the combine of thread t finds its key in the cache, resolvable
Hits(t) == Leaves(t, "combine_cache") /\ Resolvable(cache, threads[t].key)

\* C30: a combine that hits a resolvable entry returns is_new = true
\* exactly when the entry has discovered = false, and then stores the entry
\* with discovered = true, nothing else of it changed; a hit on an entry
\* already discovered returns is_new = false and leaves the cache as it is.
\* No step sets discovered back to false on a resolvable entry, so the
\* first hit is the only one that returns is_new = true.
C30_FirstHitDiscovers ==
    [][/\ \A t \in Slots :
            Hits(t)
            => LET key == threads[t].key IN
               /\ out' # None /\ out'[1].code = 200
               /\ out'[1].info[1].is_new = ~cache[key].discovered
               /\ out'[1].info[1].name = cache[key].name
               /\ cache' = [cache EXCEPT ![key].discovered = TRUE]
       /\ \A key \in DOMAIN cache :
            Resolvable(cache, key) /\ cache[key].discovered
            /\ key \in DOMAIN cache' /\ Resolvable(cache', key)
            => cache'[key].discovered]_vars

\* C30 witness: the entry loaded with discovered = false was hit before and
\* is hit again: this combine returns is_new = false, the entry is
\* discovered.
C30_SecondHitNotNew ==
    /\ out # None /\ out[1].op = "combine" /\ out[1].code = 200
    /\ out[1].info[1].name = "Hot Mud!"
    /\ ~out[1].info[1].is_new
    /\ \E key \in DOMAIN cache :
          cache[key].name = "Hot Mud!" /\ cache[key].discovered

\* thread t awaits the answer of the Oracle, the Renderer or the Ledger
InCall(t) == threads[t].pc = "call"
\* thread t can take its next step
CanGoOn(t) == ENABLED (Acquire(t) \/ Release(t) \/ Respond(t))

\* C31: a request that waits on an external call holds no guard of the
\* match store and none of the craft cache, and it is queued for neither
\* lock; so when every other request in flight waits on an external call,
\* a request is never kept from its next step (lock grant, guard drop,
\* return), whatever lock it asks for.
C31_NoLockOverCall ==
    /\ \A t \in Slots : InCall(t) => Guards(threads, t) = {}
    /\ \A u \in Busy :
          (\A t \in Busy \ {u} : InCall(t)) => CanGoOn(u)

\* C31 witness: while one request waits on the Oracle's /combine, another
\* one holds the write guard of the match store.
C31_CommitDuringCall ==
    \E t, u \in Slots :
        /\ InCall(t) /\ Head(threads[t].path) = Await("combine")
        /\ threads[u].pc = "run" /\ WriteLock("games") \in Guards(threads, u)

\* thread t, a combine that missed the cache and asked the Oracle, writes
\* its cache entry in this step
MissWrites(t) ==
    /\ Leaves(t, "combine_oracle") \/ Leaves(t, "combine_image")
    /\ cache' # cache
\* thread u, a combine of the combination `key` that missed the cache and
\* asked the Oracle, has written its entry and stands before its commit
WroteBefore(u, key) ==
    threads[u].pc = "combine_commit" /\ threads[u].cached.id = key
SameVerdict(e, f) ==
    e.name = f.name /\ e.description = f.description /\ e.impossible = f.impossible

\* C32: when two concurrent combines of one combination both missed the
\* cache and both asked the Oracle, the entry the later one writes has the
\* name, the description and the impossible flag of the entry the earlier
\* one wrote.
C32_LaterWriterEquivalent ==
    [][\A t, u \in Slots :
          t # u /\ MissWrites(t) /\ WroteBefore(u, threads[t].key)
          => SameVerdict(cache'[threads[t].key], threads[u].cached)]_vars

\* C32 witness: both combines are done, the hand holds a card named Steam
\* whose id the cache holds as impossible.
C32_HandCardOfImpossibleEntry ==
    /\ Busy = {}
    /\ \E id \in DOMAIN games : \E p \in Players :
         \E i \in 1..Len(Hand(games[id], p)) :
            LET card == Hand(games[id], p)[i] IN
            /\ card.kind = "crafted" /\ card.name = "Steam"
            /\ card.image_path # << >>
            /\ card.id \in DOMAIN cache
            /\ cache[card.id].impossible

\* C33: with every task that can go on scheduled and every external call
\* answered, each request in flight returns: no interleaving leaves a
\* request waiting for the match-store lock or the craft-cache lock for
\* ever.
C33_EveryRequestReturns ==
    \A t \in Slots : (threads[t].pc # "idle") ~> (threads[t].pc = "idle")

\* C33 witness: a combine on its cache-hit path holds the write guard of
\* the craft cache and is queued for the match store, which another request
\* holds, while a third party is not needed: the other request is inside
\* its guarded block.
C33_HitWaitsForMatchStore ==
    \E t, u \in Slots :
        /\ t # u
        /\ Queued(threads, t, "games")
        /\ WriteLock("card_cache") \in Guards(threads, t)
        /\ threads[u].pc = "run"
        /\ \E g \in Guards(threads, u) : g[2] = "games"

\* the cells of match g that hold a card of player p
Owned(g, p) == {c \in Cells : g.board[c].card # None /\ g.board[c].card[1].owner = p}

\* C34: with the requests processed one at a time, the score of each
\* player is the number of cells that hold a card of that player; the two
\* scores sum to at most the nine cells, and the owner of an occupied cell
\* has at least the point a contest takes away.
C34_ScoreIsCellsOwned ==
    \A id \in DOMAIN games :
        /\ \A p \in Players : Score(games[id], p) = Cardinality(Owned(games[id], p))
        /\ Score(games[id], 0) + Score(games[id], 1) <= BoardDim * BoardDim
        /\ \A c \in Cells :
              games[id].board[c].card # None
              => Score(games[id], games[id].board[c].card[1].owner) >= 1

\* C34 witness: a contest was won, the cell changed its owner.
C34_CellConquered ==
    /\ out # None /\ out[1].op = "place" /\ out[1].code = 200
    /\ out[1].result = "conquered"
    /\ \E id \in DOMAIN games : \E p \in Players : Owned(games[id], p) # {}

\* C35: in every reachable state, whatever the interleaving of the
\* requests, each hand of each match holds at most HAND_SIZE cards.
C35_HandAtMostSeven ==
    \A id \in DOMAIN games : \A p \in Players : Len(Hand(games[id], p)) <= HAND_SIZE

\* C35 witness: a combine committed into the hand of the player whose turn
\* had ended meanwhile: the refilled hand lost the selected cards and got
\* the crafted one.
C35_CommitAfterRefill ==
    /\ out # None /\ out[1].op = "combine" /\ out[1].code = 200
    /\ \E id \in DOMAIN games :
         LET p == Other(games[id].current_player)
             hand == Hand(games[id], p)
         IN  /\ hand # << >> /\ Len(hand) < HAND_SIZE
             /\ Last(hand).kind = "crafted"

\* the positions a list names, each once, in the order of their first mention
FirstMentions(idxs) ==
    LET first(i) == \A j \in 1..(i - 1) : idxs[j] # idxs[i]
        keep[i \in 0..Len(idxs)] ==
            IF i = 0 THEN << >>
            ELSE IF first(i) THEN Append(keep[i - 1], idxs[i]) ELSE keep[i - 1]
    IN  keep[Len(idxs)]

\* C36: a combine commit on an accepted index list, repeats of a position
\* included, takes out of the hand the cards at the positions the list
\* names and no other card, and the crafted card is the combination of the
\* cards at these positions, each counted once.
C36_OnlyNamedCardsUsed ==
    [][\A t \in Slots :
          LET th == threads[t] IN
          CombineCommits(t)
          /\ ValidSelection(Hand(games[th.id], th.player_idx), th.card_indices)
          => LET hand == Hand(games[th.id], th.player_idx)
                 after == Hand(games'[th.id], th.player_idx)
             IN  /\ SubSeq(after, 1, Len(after) - 1)
                      = UnselectedFrom(hand, th.card_indices, 1)
                 /\ Last(after).id
                      = CombineKey(Selected(hand, FirstMentions(th.card_indices)))]_vars

\* C36 witness: the list [0, 0] was accepted; its combine has written the
\* cache entry of a combination of two cards and stands before its commit.
C36_RepeatedIndexAccepted ==
    \E t \in Slots :
        /\ threads[t].pc = "combine_commit"
        /\ threads[t].card_indices = <<0, 0>>
        /\ threads[t].cached.id \in DOMAIN cache

\* C37: whatever ran between the snapshot of a placement and its commit,
\* the commit does not reach past the end of the hand (the handler does not
\* die in Vec::remove), and the card it takes out of the acting player's
\* hand has the id of the card it writes to the cell.
C37_PlacedCardLeavesHand ==
    [][\A t \in Slots :
          Leaves(t, "place_commit") \/ Leaves(t, "place_judge")
          => LET th == threads[t] IN
             /\ out' # Panicked("place", th.via)
             /\ Commits(t)
                => At(Hand(games[th.id], th.player_idx), th.hand_index).id
                     = games'[th.id].board[<<th.row, th.col>>].card[1].card.id]_vars

\* C37 witness: a placement stands before its commit and the card at its
\* hand index is no longer the card of its snapshot.
C37_HandShiftedBeforeCommit ==
    \E t \in Slots :
        /\ threads[t].pc = "place_commit"
        /\ LET th == threads[t]
               hand == Hand(games[th.id], th.player_idx)
           IN  /\ th.hand_index < Len(hand)
               /\ At(hand, th.hand_index).id # th.crafted.id

\* the hand holds a card with id `key` that waits for its artwork
HasPending(hand, key) == \E i \in 1..Len(hand) : Pending(hand[i], key)

\* C38: a finalize_combine that returns Ok fills the pending card with its
\* cache key in the hand of the player who crafted it, whether or not that
\* player is still the current player, and leaves no card with that id and
\* an empty artwork path in that hand.
C38_FinalizeFillsPending ==
    [][\A t \in Slots :
          Leaves(t, "finalize_commit") /\ out' # None /\ out'[1].code = 200
          => LET th == threads[t] IN
             \A p \in Players :
                HasPending(Hand(games[th.id], p), th.cache_key)
                => /\ Hand(games'[th.id], p) # Hand(games[th.id], p)
                   /\ ~HasPending(Hand(games'[th.id], p), th.cache_key)]_vars

\* C38 witness: a finalize_combine stands before its commit with the key of
\* a card pending in the hand of the player whose turn has ended; the
\* current player holds no such card.
C38_FinalizeAfterEndTurn ==
    \E t \in Slots :
        /\ threads[t].pc = "finalize_commit"
        /\ Known(threads[t].id)
        /\ LET th == threads[t]
               g == games[th.id]
           IN  /\ HasPending(Hand(g, Other(g.current_player)), th.cache_key)
               /\ ~HasPending(Hand(g, g.current_player), th.cache_key)

\* C39: a contested placement is committed only on the verdict "b"; on any
\* other verdict, or none, the answer is "defended" and no match changes.
C39_OnlyVerdictBConquers ==
    [][\A t \in Slots :
          Leaves(t, "place_judge") /\ Placed(t) # None
          => IF Placed(t)[2] = Some("b")
             THEN Placed(t)[1] = "conquered"
             ELSE Placed(t)[1] = "defended" /\ games' = games]_vars

\* C39 witness: the judge named "tie" and the attacker's card took the cell.
C39_TieConquers ==
    /\ out # None /\ out[1].op = "place" /\ out[1].code = 200
    /\ out[1].result = "conquered"
    /\ out[1].info = Some("tie")

\* C40: the flags of the craft cache only grow: no step removes an entry, an
\* impossible entry stays impossible and a discovered entry stays discovered,
\* whatever requests run and however they interleave.
C40_CacheFlagsMonotonic ==
    [][/\ DOMAIN cache \subseteq DOMAIN cache'
       /\ \A k \in DOMAIN cache \cap DOMAIN cache' :
            /\ cache[k].impossible => cache'[k].impossible
            /\ cache[k].discovered => cache'[k].discovered]_vars

\* C40 witness: a combine that missed the cache is waiting for the Oracle
\* while the entry of its key has been written and discovered by another.
C40_OracleAskedForDiscoveredKey ==
    \E t \in Slots :
        /\ threads[t].pc = "combine_oracle"
        /\ threads[t].key \in DOMAIN cache
        /\ cache[threads[t].key].discovered

=============================================================================
